---- MODULE Spec2Model ----
(***************************************************************************)
(* Vegap SDK client (src/src/index.ts, the class Vegap from line 390 on   *)
(* and the module-level functions after it).                               *)
(*                                                                         *)
(* A JavaScript string is a sequence of one-character strings, so that     *)
(* toLowerCase, replace(/^\//, ''), template concatenation and the query   *)
(* encoding are computed character by character.  A JavaScript value is a  *)
(* record [t, s, n, b, props]: t is the type tag, s the characters of a    *)
(* string, n a number, b a boolean and props the own properties of an      *)
(* object, in insertion order, as <<key, value>> pairs.                    *)
(***************************************************************************)
EXTENDS Naturals, Sequences, FiniteSets

(* ---------------------------------------------------------------------- *)
(* String literals of the source                                           *)
(* ---------------------------------------------------------------------- *)
DefaultBaseUrl == <<"h", "t", "t", "p", "s", ":", "/", "/", "a", "p", "i", ".", "v", "e", "g", "a", "p", ".", "d", "e">>
ProxyRoute == <<"/", "a", "p", "i", "/", "p", "r", "o", "x", "y", "/">>
ProxyCustomRoute == <<"/", "a", "p", "i", "/", "p", "r", "o", "x", "y", "/", "c", "u", "s", "t", "o", "m", "/">>
PipelineExecuteRoute == <<"/", "a", "p", "i", "/", "p", "i", "p", "e", "l", "i", "n", "e", "s", "/", "e", "x", "e", "c", "u", "t", "e", "/">>
PipelineCustomRoute == <<"/", "a", "p", "i", "/", "p", "i", "p", "e", "l", "i", "n", "e", "s", "/", "c", "u", "s", "t", "o", "m", "/">>
TransformRoute == <<"/", "a", "p", "i", "/", "t", "r", "a", "n", "s", "f", "o", "r", "m">>
MsgApiKeyRequired == <<"A", "P", "I", " ", "k", "e", "y", " ", "i", "s", " ", "r", "e", "q", "u", "i", "r", "e", "d">>
MsgOptionsNeedMappingId == <<"I", "f", " ", "f", "i", "r", "s", "t", " ", "p", "a", "r", "a", "m", "e", "t", "e", "r", " ", "i", "s", " ", "a", "n", " ", "o", "p", "t", "i", "o", "n", "s", " ", "o", "b", "j", "e", "c", "t", ",", " ", "i", "t", " ", "m", "u", "s", "t", " ", "c", "o", "n", "t", "a", "i", "n", " ", "m", "a", "p", "p", "i", "n", "g", "I", "d">>
MsgNeedSlugOrMappingId == <<"E", "i", "t", "h", "e", "r", " ", "c", "u", "s", "t", "o", "m", "S", "l", "u", "g", " ", "(", "s", "t", "r", "i", "n", "g", ")", " ", "o", "r", " ", "m", "a", "p", "p", "i", "n", "g", "I", "d", " ", "(", "i", "n", " ", "o", "p", "t", "i", "o", "n", "s", ")", " ", "m", "u", "s", "t", " ", "b", "e", " ", "p", "r", "o", "v", "i", "d", "e", "d">>
MsgOptionsNeedPipelineId == <<"I", "f", " ", "f", "i", "r", "s", "t", " ", "p", "a", "r", "a", "m", "e", "t", "e", "r", " ", "i", "s", " ", "a", "n", " ", "o", "p", "t", "i", "o", "n", "s", " ", "o", "b", "j", "e", "c", "t", ",", " ", "i", "t", " ", "m", "u", "s", "t", " ", "c", "o", "n", "t", "a", "i", "n", " ", "p", "i", "p", "e", "l", "i", "n", "e", "I", "d", ",", " ", "o", "r", " ", "u", "s", "e", " ", "c", "u", "s", "t", "o", "m", " ", "s", "l", "u", "g", " ", "a", "s", " ", "f", "i", "r", "s", "t", " ", "p", "a", "r", "a", "m", "e", "t", "e", "r">>
MsgFileOrDataRequired == <<"E", "i", "t", "h", "e", "r", " ", "f", "i", "l", "e", " ", "o", "r", " ", "d", "a", "t", "a", " ", "m", "u", "s", "t", " ", "b", "e", " ", "p", "r", "o", "v", "i", "d", "e", "d">>
MsgNeedSlugOrPipelineId == <<"E", "i", "t", "h", "e", "r", " ", "c", "u", "s", "t", "o", "m", "S", "l", "u", "g", " ", "(", "s", "t", "r", "i", "n", "g", ")", " ", "o", "r", " ", "p", "i", "p", "e", "l", "i", "n", "e", "I", "d", " ", "(", "i", "n", " ", "o", "p", "t", "i", "o", "n", "s", ")", " ", "m", "u", "s", "t", " ", "b", "e", " ", "p", "r", "o", "v", "i", "d", "e", "d">>
MsgUnsupportedFile == <<"U", "n", "s", "u", "p", "p", "o", "r", "t", "e", "d", " ", "f", "i", "l", "e", " ", "t", "y", "p", "e", ".", " ", "U", "s", "e", " ", "F", "i", "l", "e", ",", " ", "B", "l", "o", "b", ",", " ", "o", "r", " ", "B", "u", "f", "f", "e", "r", ".">>
MsgMappingIdRequired == <<"m", "a", "p", "p", "i", "n", "g", "I", "d", " ", "i", "s", " ", "r", "e", "q", "u", "i", "r", "e", "d">>
MsgRawResponseRequired == <<"r", "a", "w", "R", "e", "s", "p", "o", "n", "s", "e", " ", "i", "s", " ", "r", "e", "q", "u", "i", "r", "e", "d">>
MsgCompanyIdRequired == <<"C", "o", "m", "p", "a", "n", "y", " ", "I", "D", " ", "i", "s", " ", "r", "e", "q", "u", "i", "r", "e", "d", ".", " ", "P", "l", "e", "a", "s", "e", " ", "p", "r", "o", "v", "i", "d", "e", " ", "i", "t", " ", "i", "n", " ", "t", "h", "e", " ", "c", "o", "n", "f", "i", "g", " ", "o", "r", " ", "u", "s", "e", " ", "s", "e", "t", "C", "o", "m", "p", "a", "n", "y", "I", "d", "(", ")", " ", "m", "e", "t", "h", "o", "d", ".">>
MsgNotInitialized == <<"V", "e", "g", "a", "p", " ", "S", "D", "K", " ", "n", "o", "t", " ", "i", "n", "i", "t", "i", "a", "l", "i", "z", "e", "d", ".", " ", "C", "a", "l", "l", " ", "i", "n", "i", "t", "(", ")", " ", "f", "i", "r", "s", "t", " ", "o", "r", " ", "u", "s", "e", " ", "c", "r", "e", "a", "t", "e", "I", "n", "s", "t", "a", "n", "c", "e", "(", ")", " ", "t", "o", " ", "c", "r", "e", "a", "t", "e", " ", "a", " ", "n", "e", "w", " ", "i", "n", "s", "t", "a", "n", "c", "e", ".">>
HttpPrefix == <<"H", "T", "T", "P", " ">>
ApplicationJson == <<"a", "p", "p", "l", "i", "c", "a", "t", "i", "o", "n", "/", "j", "s", "o", "n">>
TextCsv == <<"t", "e", "x", "t", "/", "c", "s", "v">>
K_method == <<"m", "e", "t", "h", "o", "d">>
K_body == <<"b", "o", "d", "y">>
K_query == <<"q", "u", "e", "r", "y">>
K_path == <<"p", "a", "t", "h">>
K_headers == <<"h", "e", "a", "d", "e", "r", "s">>
K_mappingId == <<"m", "a", "p", "p", "i", "n", "g", "I", "d">>
K_pipelineId == <<"p", "i", "p", "e", "l", "i", "n", "e", "I", "d">>
K_file == <<"f", "i", "l", "e">>
K_data == <<"d", "a", "t", "a">>
K_rawResponse == <<"r", "a", "w", "R", "e", "s", "p", "o", "n", "s", "e">>
K_error == <<"e", "r", "r", "o", "r">>
K_mapping_id == <<"m", "a", "p", "p", "i", "n", "g", "_", "i", "d">>
K_raw_response == <<"r", "a", "w", "_", "r", "e", "s", "p", "o", "n", "s", "e">>
K_apiKey == <<"a", "p", "i", "K", "e", "y">>
K_baseUrl == <<"b", "a", "s", "e", "U", "r", "l">>
K_companyId == <<"c", "o", "m", "p", "a", "n", "y", "I", "d">>
S_GET == <<"G", "E", "T">>
S_POST == <<"P", "O", "S", "T">>
S_PUT == <<"P", "U", "T">>
S_PATCH == <<"P", "A", "T", "C", "H">>
S_DELETE == <<"D", "E", "L", "E", "T", "E">>
S_true == <<"t", "r", "u", "e">>
S_false == <<"f", "a", "l", "s", "e">>
S_null == <<"n", "u", "l", "l">>
S_undefined == <<"u", "n", "d", "e", "f", "i", "n", "e", "d">>
S_objectObject == <<"[", "o", "b", "j", "e", "c", "t", " ", "O", "b", "j", "e", "c", "t", "]">>
H_XApiKey == <<"X", "-", "A", "P", "I", "-", "K", "e", "y">>
H_ContentType == <<"C", "o", "n", "t", "e", "n", "t", "-", "T", "y", "p", "e">>
K_success == <<"s", "u", "c", "c", "e", "s", "s">>
K_job_id == <<"j", "o", "b", "_", "i", "d">>
K_result == <<"r", "e", "s", "u", "l", "t">>
K_status == <<"s", "t", "a", "t", "u", "s">>
S_completed == <<"c", "o", "m", "p", "l", "e", "t", "e", "d">>
MsgNullProperty == <<"C", "a", "n", "n", "o", "t", " ", "r", "e", "a", "d", " ", "p", "r", "o", "p", "e", "r", "t", "i", "e", "s", " ", "o", "f", " ", "n", "u", "l", "l", " ", "(", "r", "e", "a", "d", "i", "n", "g", " ", "'", "e", "r", "r", "o", "r", "'", ")">>

(* ---------------------------------------------------------------------- *)
(* JavaScript values                                                       *)
(* ---------------------------------------------------------------------- *)
Undefined == [t |-> "undefined", s |-> <<>>, n |-> 0, b |-> FALSE, props |-> <<>>]
Null == [t |-> "null", s |-> <<>>, n |-> 0, b |-> FALSE, props |-> <<>>]
Str(chars) == [t |-> "string", s |-> chars, n |-> 0, b |-> FALSE, props |-> <<>>]
Num(k) == [t |-> "number", s |-> <<>>, n |-> k, b |-> FALSE, props |-> <<>>]
Bool(v) == [t |-> "boolean", s |-> <<>>, n |-> 0, b |-> v, props |-> <<>>]
Obj(entries) == [t |-> "object", s |-> <<>>, n |-> 0, b |-> FALSE, props |-> entries]
\* a File, Blob, Buffer or Uint8Array: an object told apart by its class
Binary(class) == [t |-> class, s |-> <<>>, n |-> 0, b |-> FALSE, props |-> <<>>]

\* ToBoolean, as used by `!x`, `x && ...`, `x || y` and `if (x)`
Truthy(v) ==
  CASE v.t = "undefined" -> FALSE
    [] v.t = "null" -> FALSE
    [] v.t = "string" -> v.s # <<>>
    [] v.t = "number" -> v.n # 0
    [] v.t = "boolean" -> v.b
    [] OTHER -> TRUE

\* `key in obj`: obj has an own property named key, whatever its value
HasKey(obj, key) == \E i \in DOMAIN obj.props : obj.props[i][1] = key

\* obj.key: the value of the property, undefined when there is none
Get(obj, key) ==
  IF HasKey(obj, key)
  THEN obj.props[CHOOSE i \in DOMAIN obj.props : obj.props[i][1] = key][2]
  ELSE Undefined

\* destructuring with a default: `const { key = dflt } = obj`
GetOr(obj, key, dflt) == IF Get(obj, key).t = "undefined" THEN dflt ELSE Get(obj, key)

Digit(d) == <<"0", "1", "2", "3", "4", "5", "6", "7", "8", "9">>[d + 1]

RECURSIVE Decimal(_)
Decimal(k) == IF k < 10 THEN <<Digit(k)>> ELSE Decimal(k \div 10) \o <<Digit(k % 10)>>

\* String(value)
ToString(v) ==
  CASE v.t = "string" -> v.s
    [] v.t = "number" -> Decimal(v.n)
    [] v.t = "boolean" -> (IF v.b THEN S_true ELSE S_false)
    [] v.t = "null" -> S_null
    [] v.t = "undefined" -> S_undefined
    [] OTHER -> S_objectObject

(* ---------------------------------------------------------------------- *)
(* String operations                                                       *)
(* ---------------------------------------------------------------------- *)
UpperLetters == <<"A", "B", "C", "D", "E", "F", "G", "H", "I", "J", "K", "L", "M", "N", "O", "P", "Q", "R", "S", "T", "U", "V", "W", "X", "Y", "Z">>
LowerLetters == <<"a", "b", "c", "d", "e", "f", "g", "h", "i", "j", "k", "l", "m", "n", "o", "p", "q", "r", "s", "t", "u", "v", "w", "x", "y", "z">>
Digits == {"0", "1", "2", "3", "4", "5", "6", "7", "8", "9"}

LowerChar(ch) ==
  IF \E i \in DOMAIN UpperLetters : UpperLetters[i] = ch
  THEN LowerLetters[CHOOSE i \in DOMAIN UpperLetters : UpperLetters[i] = ch]
  ELSE ch

\* customSlug.toLowerCase()
ToLowerCase(str) == [i \in DOMAIN str |-> LowerChar(str[i])]

\* a variant that keeps the leading slash
CleanPathKept(path) == path

\* path.replace(/^\//, '')
CleanPath(path) == IF path # <<>> /\ Head(path) = "/" THEN Tail(path) ELSE path

\* str.includes(sub)
Includes(str, sub) ==
  \E i \in 0..Len(str) :
    /\ i + Len(sub) <= Len(str)
    /\ \A j \in 1..Len(sub) : str[i + j] = sub[j]

(* ---------------------------------------------------------------------- *)
(* URLSearchParams: application/x-www-form-urlencoded serialisation        *)
(* ---------------------------------------------------------------------- *)
FormSafe(ch) ==
  \/ ch \in Digits
  \/ \E i \in DOMAIN UpperLetters : UpperLetters[i] = ch
  \/ \E i \in DOMAIN LowerLetters : LowerLetters[i] = ch
  \/ ch \in {"*", "-", ".", "_"}

\* the percent escapes of the characters of the model's alphabet
PercentCode(ch) ==
  CASE ch = "/" -> <<"%", "2", "F">>
    [] ch = "&" -> <<"%", "2", "6">>
    [] ch = "=" -> <<"%", "3", "D">>
    [] ch = "?" -> <<"%", "3", "F">>
    [] ch = "+" -> <<"%", "2", "B">>
    [] ch = "%" -> <<"%", "2", "5">>
    [] ch = ":" -> <<"%", "3", "A">>
    [] ch = "#" -> <<"%", "2", "3">>

FormEncodeChar(ch) ==
  IF FormSafe(ch) THEN <<ch>> ELSE IF ch = " " THEN <<"+">> ELSE PercentCode(ch)

RECURSIVE FormEncode(_)
FormEncode(str) ==
  IF str = <<>> THEN <<>> ELSE FormEncodeChar(Head(str)) \o FormEncode(Tail(str))

\* Object.entries(query).forEach(...): the pairs appended to queryParams
RECURSIVE QueryParams(_)
QueryParams(entries) ==
  IF entries = <<>> THEN <<>>
  ELSE LET key == Head(entries)[1]
           value == Head(entries)[2]
       IN (IF value.t # "undefined" /\ value.t # "null"
           THEN <<<<key, ToString(value)>>>>
           ELSE <<>>) \o QueryParams(Tail(entries))

\* queryParams.toString()
RECURSIVE SerializeParams(_)
SerializeParams(params) ==
  IF params = <<>> THEN <<>>
  ELSE FormEncode(Head(params)[1]) \o <<"=">> \o FormEncode(Head(params)[2])
       \o (IF Tail(params) = <<>> THEN <<>> ELSE <<"&">> \o SerializeParams(Tail(params)))

(* ---------------------------------------------------------------------- *)
(* Object spread and JSON.stringify                                        *)
(* ---------------------------------------------------------------------- *)
\* obj[key] = value on a property list: replace in place, or append
SetProp(entries, key, value) ==
  IF \E i \in DOMAIN entries : entries[i][1] = key
  THEN [i \in DOMAIN entries |-> IF entries[i][1] = key THEN <<key, value>> ELSE entries[i]]
  ELSE Append(entries, <<key, value>>)

\* { ...entries, ...more }
RECURSIVE Spread(_, _)
Spread(entries, more) ==
  IF more = <<>> THEN entries
  ELSE Spread(SetProp(entries, Head(more)[1], Head(more)[2]), Tail(more))

RECURSIVE JsonQuoteChars(_)
JsonQuoteChars(str) ==
  IF str = <<>> THEN <<>>
  ELSE (IF Head(str) \in {"\"", "\\"} THEN <<"\\", Head(str)>> ELSE <<Head(str)>>)
       \o JsonQuoteChars(Tail(str))

JsonQuote(str) == <<"\"">> \o JsonQuoteChars(str) \o <<"\"">>

RECURSIVE JsonStringify(_)
RECURSIVE JsonMembers(_, _)
JsonMembers(entries, first) ==
  IF entries = <<>> THEN <<>>
  ELSE IF Head(entries)[2].t = "undefined" THEN JsonMembers(Tail(entries), first)
  ELSE (IF first THEN <<>> ELSE <<",">>)
       \o JsonQuote(Head(entries)[1]) \o <<":">> \o JsonStringify(Head(entries)[2])
       \o JsonMembers(Tail(entries), FALSE)

\* JSON.stringify(v) for v other than undefined
JsonStringify(v) ==
  CASE v.t = "string" -> JsonQuote(v.s)
    [] v.t = "number" -> Decimal(v.n)
    [] v.t = "boolean" -> (IF v.b THEN S_true ELSE S_false)
    [] v.t = "null" -> S_null
    [] OTHER -> <<"{">> \o JsonMembers(v.props, TRUE) \o <<"}">>

(* ---------------------------------------------------------------------- *)
(* Errors and promise outcomes                                             *)
(* ---------------------------------------------------------------------- *)
\* new Error(message)
Error(message) == [name |-> "Error", message |-> message]
TypeError(message) == [name |-> "TypeError", message |-> message]
NoError == [name |-> "", message |-> <<>>]

Pending == [kind |-> "pending", value |-> Undefined, error |-> NoError]
Fulfilled(v) == [kind |-> "fulfilled", value |-> v, error |-> NoError]
Rejected(e) == [kind |-> "rejected", value |-> Undefined, error |-> e]
\* the call threw before it returned a promise
Thrown(e) == [kind |-> "thrown", value |-> Undefined, error |-> e]

(* ---------------------------------------------------------------------- *)
(* Response handling shared by proxy, pipeline and transform               *)
(* ---------------------------------------------------------------------- *)
\* response.ok
Ok(response) == response.status >= 200 /\ response.status <= 299

\* `HTTP ${response.status}: ${response.statusText}`
HttpMessage(response) ==
  HttpPrefix \o Decimal(response.status) \o <<":", " ">> \o response.statusText

\* await response.json().catch(() => ({ error: `HTTP ...` }))
ErrorData(response) ==
  IF response.body.parses THEN response.body.json
  ELSE Obj(<<<<K_error, Str(HttpMessage(response))>>>>)

\* a variant that never reads the body
ErrorFromResponseStatusOnly(response) == Error(HttpMessage(response))

\* throw new Error(errorData.error || `HTTP ...`), reading .error of null throws
ErrorFromResponse(response) ==
  LET errorData == ErrorData(response)
  IN IF errorData.t = "null" THEN TypeError(MsgNullProperty)
     ELSE IF Truthy(Get(errorData, K_error))
          THEN Error(ToString(Get(errorData, K_error)))
          ELSE Error(HttpMessage(response))

\* await response.json() of a successful response rejected
JsonRejected(response) == Rejected(response.body.parseError)

(* ---------------------------------------------------------------------- *)
(* State                                                                   *)
(* ---------------------------------------------------------------------- *)
\* the number of calls issued on the client in one behaviour
MaxCalls == 2
Calls == 1..MaxCalls

VARIABLES
  apiKey,     \* this.apiKey, a string
  baseUrl,    \* this.baseUrl, a string
  companyId,  \* this.companyId, a string value or undefined
  pc,         \* pc[c]: where call c stands: "idle", "awaitCompanyId", "awaitFetch", "done"
  op,         \* op[c]: the method call c invoked: "proxy", "pipeline", "transform" ("none" before)
  args,       \* args[c]: the arguments call c was invoked with
  frame,      \* frame[c]: the locals of call c kept across `await this.getCompanyId()`
  requests,   \* requests[c]: the fetch(url, requestOptions) calls made by call c, in order
  fetched,    \* fetched[c]: what `await fetch(...)` gave call c: a response or an error
  outcome,    \* outcome[c]: the promise call c returned: pending, fulfilled or rejected
  globalInstance, \* the module's `let globalInstance`: no instance, or the instance init() made
  created,    \* the calls of new Vegap, createInstance and init so far, with what each gave
  via,        \* via[c]: the call of vegap.proxy, vegap.transform or vegap.pipeline behind call c
  lastSet     \* the argument of the latest setCompanyId(companyId) call, if there was one

vars == <<apiKey, baseUrl, companyId, pc, op, args, frame, requests, fetched, outcome,
          globalInstance, created, via, lastSet>>

\* the fields of the client, as a call finds them when it is invoked
This == [apiKey |-> apiKey, baseUrl |-> baseUrl, companyId |-> companyId]
NoArgs == [identifier |-> Undefined, options |-> Undefined,
           this |-> [apiKey |-> <<>>, baseUrl |-> <<>>, companyId |-> Undefined]]
Invoked(identifier, options) == [identifier |-> identifier, options |-> options, this |-> This]
NoResponse ==
  [status |-> 0, statusText |-> <<>>, contentType |-> Null,
   body |-> [parses |-> FALSE, json |-> Undefined, text |-> <<>>, parseError |-> NoError]]
NotFetched == [kind |-> "none", response |-> NoResponse, error |-> NoError]
NoResult == [threw |-> FALSE, value |-> Undefined, error |-> NoError]
NoFrame == [customSlug |-> Undefined, normalizedOptions |-> Undefined, companyId |-> NoResult]
\* let globalInstance: Vegap | null = null
NoInstance == [null |-> TRUE, apiKey |-> <<>>, baseUrl |-> <<>>, companyId |-> Undefined]
NoVia == [fn |-> "none", identifier |-> Undefined, options |-> Undefined, instance |-> NoInstance]
\* setCompanyId has not been called
NeverSet == [called |-> FALSE, companyId |-> Undefined]

(* ---------------------------------------------------------------------- *)
(* The class Vegap                                                         *)
(* ---------------------------------------------------------------------- *)
\* a variant that throws only when config has no apiKey at all
ConstructorUndefinedOnly(config) ==
  IF Get(config, K_apiKey).t = "undefined"
  THEN [threw |-> TRUE, error |-> Error(MsgApiKeyRequired),
        apiKey |-> <<>>, baseUrl |-> <<>>, companyId |-> Undefined]
  ELSE [threw |-> FALSE, error |-> NoError,
        apiKey |-> Get(config, K_apiKey).s,
        baseUrl |-> IF Truthy(Get(config, K_baseUrl)) THEN Get(config, K_baseUrl).s
                    ELSE DefaultBaseUrl,
        companyId |-> Get(config, K_companyId)]

\* constructor(config)
Constructor(config) ==
  IF ~Truthy(Get(config, K_apiKey))
  THEN [threw |-> TRUE, error |-> Error(MsgApiKeyRequired),
        apiKey |-> <<>>, baseUrl |-> <<>>, companyId |-> Undefined]
  ELSE [threw |-> FALSE, error |-> NoError,
        apiKey |-> Get(config, K_apiKey).s,
        baseUrl |-> IF Truthy(Get(config, K_baseUrl)) THEN Get(config, K_baseUrl).s
                    ELSE DefaultBaseUrl,
        companyId |-> Get(config, K_companyId)]

\* a variant that returns this.companyId without checking it
GetCompanyIdUnchecked == [threw |-> FALSE, value |-> companyId, error |-> NoError]

\* getCompanyId(): the company id, or the error it throws; no request is made
GetCompanyId ==
  IF Truthy(companyId)
  THEN [threw |-> FALSE, value |-> companyId, error |-> NoError]
  ELSE [threw |-> TRUE, value |-> Undefined, error |-> Error(MsgCompanyIdRequired)]

\* a variant that keeps a company id once there is one
SetCompanyIdOnce(id) ==
  /\ companyId' = IF Truthy(companyId) THEN companyId ELSE id
  /\ lastSet' = [called |-> TRUE, companyId |-> id]
  /\ UNCHANGED <<apiKey, baseUrl, pc, op, args, frame, requests, fetched, outcome,
               globalInstance, created, via>>

\* setCompanyId(companyId)
SetCompanyId(id) ==
  /\ companyId' = id
  /\ lastSet' = [called |-> TRUE, companyId |-> id]
  /\ UNCHANGED <<apiKey, baseUrl, pc, op, args, frame, requests, fetched, outcome,
               globalInstance, created, via>>

\* the call's promise settles without a request having been made in this step
Settle(c, out) ==
  /\ pc' = [pc EXCEPT ![c] = "done"]
  /\ outcome' = [outcome EXCEPT ![c] = out]
  /\ UNCHANGED <<requests, fetched>>

\* await fetch(url, requestOptions): the request goes out, the call waits
Fetch(c, request) ==
  /\ pc' = [pc EXCEPT ![c] = "awaitFetch"]
  /\ requests' = [requests EXCEPT ![c] = Append(@, request)]
  /\ UNCHANGED <<fetched, outcome>>

\* `await fetch(...)` is over and the call's promise settles
Receive(c, got, out) ==
  /\ pc' = [pc EXCEPT ![c] = "done"]
  /\ fetched' = [fetched EXCEPT ![c] = got]
  /\ outcome' = [outcome EXCEPT ![c] = out]
  /\ UNCHANGED requests

Got(response) == [kind |-> "response", response |-> response, error |-> NoError]
GotError(error) == [kind |-> "error", response |-> NoResponse, error |-> error]

\* calls are numbered in the order of their invocation
IsNextCall(c) == pc[c] = "idle" /\ \A d \in Calls : d < c => pc[d] # "idle"

(* ------------------------------ proxy --------------------------------- *)
RecognizedKeys == {K_method, K_body, K_query, K_path, K_headers, K_mappingId}

\* a variant that never takes the options for query parameters
ProxyNormalizeStructured(identifier, options) ==
  IF identifier.t = "string"
  THEN [threw |-> FALSE, error |-> NoError, customSlug |-> identifier,
        normalizedOptions |->
          IF ~Truthy(options) THEN Obj(<<<<K_method, Str(S_GET)>>>>) ELSE options]
  ELSE [threw |-> ~Truthy(Get(identifier, K_mappingId)),
        error |-> Error(MsgOptionsNeedMappingId),
        customSlug |-> Undefined, normalizedOptions |-> identifier]

\* a variant that looks for the key `query` only
ProxyNormalizeQueryKeyOnly(identifier, options) ==
  IF identifier.t = "string"
  THEN [threw |-> FALSE, error |-> NoError, customSlug |-> identifier,
        normalizedOptions |->
          IF ~Truthy(options) THEN Obj(<<<<K_method, Str(S_GET)>>>>)
          ELSE IF HasKey(options, K_query) THEN options
          ELSE Obj(<<<<K_query, options>>, <<K_method, Str(S_GET)>>>>)]
  ELSE [threw |-> ~Truthy(Get(identifier, K_mappingId)),
        error |-> Error(MsgOptionsNeedMappingId),
        customSlug |-> Undefined, normalizedOptions |-> identifier]

\* the first block of proxy: customSlug and normalizedOptions
ProxyNormalize(identifier, options) ==
  IF identifier.t = "string"
  THEN [threw |-> FALSE, error |-> NoError, customSlug |-> identifier,
        normalizedOptions |->
          IF ~Truthy(options) THEN Obj(<<<<K_method, Str(S_GET)>>>>)
          ELSE IF \E key \in RecognizedKeys : HasKey(options, key) THEN options
          ELSE Obj(<<<<K_query, options>>, <<K_method, Str(S_GET)>>>>)]
  ELSE [threw |-> ~Truthy(Get(identifier, K_mappingId)),
        error |-> Error(MsgOptionsNeedMappingId),
        customSlug |-> Undefined, normalizedOptions |-> identifier]

\* url += `/${cleanPath}` when a path is given
AppendPath(url, path) ==
  IF Truthy(path) THEN url \o <<"/">> \o CleanPath(path.s) ELSE url

\* url += `?${queryString}` when the query string is not empty
AppendQuery(url, query) ==
  LET queryString == SerializeParams(QueryParams(query.props))
  IN IF queryString # <<>> THEN url \o <<"?">> \o queryString ELSE url

\* a variant that sends the body with every method
ProxyBodyAnyMethod(body, method) ==
  IF Truthy(body)
  THEN (IF body.t = "string" THEN body ELSE Str(JsonStringify(body)))
  ELSE Undefined

\* the body of a proxy request: only for POST, PUT and PATCH
ProxyBody(body, method) ==
  IF Truthy(body) /\ method \in {S_POST, S_PUT, S_PATCH}
  THEN (IF body.t = "string" THEN body ELSE Str(JsonStringify(body)))
  ELSE Undefined

\* a variant that puts its own two headers after those of the caller
ProxyRequestDefaultsLast(url, no) ==
  LET query == GetOr(no, K_query, Obj(<<>>))
      method == GetOr(no, K_method, Str(S_GET)).s
      headers == GetOr(no, K_headers, Obj(<<>>))
  IN [url |-> AppendQuery(AppendPath(url, Get(no, K_path)), query),
      method |-> method,
      headers |-> Obj(Spread(headers.props, <<<<H_XApiKey, Str(apiKey)>>,
                               <<H_ContentType, Str(ApplicationJson)>>>>)),
      body |-> ProxyBody(Get(no, K_body), method)]

\* the request proxy sends, from the route url and the normalized options
ProxyRequest(url, no) ==
  LET query == GetOr(no, K_query, Obj(<<>>))
      method == GetOr(no, K_method, Str(S_GET)).s
      headers == GetOr(no, K_headers, Obj(<<>>))
  IN [url |-> AppendQuery(AppendPath(url, Get(no, K_path)), query),
      method |-> method,
      headers |-> Obj(Spread(<<<<H_XApiKey, Str(apiKey)>>,
                               <<H_ContentType, Str(ApplicationJson)>>>>, headers.props)),
      body |-> ProxyBody(Get(no, K_body), method)]

\* a variant that puts the company id on the id route too
ProxyIdUrlWithTenant(mappingId) ==
  baseUrl \o ProxyRoute \o ToString(companyId) \o <<"/">> \o ToString(mappingId)

\* `${this.baseUrl}/api/proxy/${mappingId}`
ProxyIdUrl(mappingId) == baseUrl \o ProxyRoute \o ToString(mappingId)

\* a variant that keeps the case of the slug
ProxySlugUrlCaseKept(tenant, customSlug) ==
  baseUrl \o ProxyCustomRoute \o ToString(tenant) \o <<"/">> \o customSlug.s

\* `${this.baseUrl}/api/proxy/custom/${companyId}/${customSlug.toLowerCase()}`
ProxySlugUrl(tenant, customSlug) ==
  baseUrl \o ProxyCustomRoute \o ToString(tenant) \o <<"/">> \o ToLowerCase(customSlug.s)

\* a variant that takes any string, the empty one too, for a slug
ProxyTargetAnySlug(mappingId, customSlug) ==
  IF Truthy(mappingId) THEN "id" ELSE IF customSlug.t = "string" THEN "slug" ELSE "none"

\* a variant that looks at the slug first
ProxyTargetSlugFirst(mappingId, customSlug) ==
  IF Truthy(customSlug) THEN "slug" ELSE IF Truthy(mappingId) THEN "id" ELSE "none"

\* if (mappingId) ... else if (customSlug) ... else throw
ProxyTarget(mappingId, customSlug) ==
  IF Truthy(mappingId) THEN "id" ELSE IF Truthy(customSlug) THEN "slug" ELSE "none"

\* proxy(identifier, options) up to its first await
Proxy(c, identifier, options) ==
  /\ IsNextCall(c)
  /\ op' = [op EXCEPT ![c] = "proxy"]
  /\ args' = [args EXCEPT ![c] = Invoked(identifier, options)]
  /\ UNCHANGED <<apiKey, baseUrl, companyId,
               globalInstance, created, lastSet>>
  /\ LET n == ProxyNormalize(identifier, options)
         no == n.normalizedOptions
         mappingId == Get(no, K_mappingId)
     IN IF n.threw
        THEN Settle(c, Rejected(n.error)) /\ UNCHANGED frame
        ELSE IF ProxyTarget(mappingId, n.customSlug) = "id"
        THEN Fetch(c, ProxyRequest(ProxyIdUrl(mappingId), no)) /\ UNCHANGED frame
        ELSE IF ProxyTarget(mappingId, n.customSlug) = "slug"
        THEN /\ frame' = [frame EXCEPT ![c] = [customSlug |-> n.customSlug,
                                               normalizedOptions |-> no,
                                               companyId |-> GetCompanyId]]
             /\ pc' = [pc EXCEPT ![c] = "awaitCompanyId"]
             /\ UNCHANGED <<requests, fetched, outcome>>
        ELSE Settle(c, Rejected(Error(MsgNeedSlugOrMappingId))) /\ UNCHANGED frame

\* a variant that caches the company id it awaited in this.companyId
ProxyResumeCaching(c) ==
  /\ pc[c] = "awaitCompanyId"
  /\ op[c] = "proxy"
  /\ companyId' = IF frame[c].companyId.threw THEN companyId ELSE frame[c].companyId.value
  /\ UNCHANGED <<apiKey, baseUrl, op, args, frame, globalInstance, created, via, lastSet>>
  /\ IF frame[c].companyId.threw
     THEN Settle(c, Rejected(frame[c].companyId.error))
     ELSE Fetch(c, ProxyRequest(ProxySlugUrl(frame[c].companyId.value, frame[c].customSlug),
                                frame[c].normalizedOptions))

\* a variant that reads this.companyId when it goes on, not when it was invoked
ProxyResumeLateTenant(c) ==
  /\ pc[c] = "awaitCompanyId"
  /\ op[c] = "proxy"
  /\ UNCHANGED <<apiKey, baseUrl, companyId, op, args, frame,
               globalInstance, created, via, lastSet>>
  /\ IF GetCompanyId.threw
     THEN Settle(c, Rejected(GetCompanyId.error))
     ELSE Fetch(c, ProxyRequest(ProxySlugUrl(GetCompanyId.value, frame[c].customSlug),
                                frame[c].normalizedOptions))

\* proxy after `await this.getCompanyId()`, up to `await fetch(...)`
ProxyResume(c) ==
  /\ pc[c] = "awaitCompanyId"
  /\ op[c] = "proxy"
  /\ UNCHANGED <<apiKey, baseUrl, companyId, op, args, frame,
               globalInstance, created, via, lastSet>>
  /\ IF frame[c].companyId.threw
     THEN Settle(c, Rejected(frame[c].companyId.error))
     ELSE Fetch(c, ProxyRequest(ProxySlugUrl(frame[c].companyId.value, frame[c].customSlug),
                                frame[c].normalizedOptions))

\* return { data }
ProxyData(data) == Obj(<<<<K_data, data>>>>)

\* the outcome of proxy for a response
ProxyOutcome(response) ==
  IF ~Ok(response) THEN Rejected(ErrorFromResponse(response))
  ELSE IF response.body.parses THEN Fulfilled(ProxyData(response.body.json))
  ELSE JsonRejected(response)

\* proxy after `await fetch(...)` resolved with a response
ProxyResponse(c, response) ==
  /\ pc[c] = "awaitFetch"
  /\ op[c] = "proxy"
  /\ Receive(c, Got(response), ProxyOutcome(response))
  /\ UNCHANGED <<apiKey, baseUrl, companyId, op, args, frame,
               globalInstance, created, via, lastSet>>

(* ----------------------------- pipeline ------------------------------- *)
\* the first block of pipeline: customSlug and normalizedOptions
PipelineNormalize(identifier, options) ==
  IF identifier.t = "string"
  THEN [threw |-> FALSE, error |-> NoError, customSlug |-> identifier,
        normalizedOptions |-> IF Truthy(options) THEN options ELSE Obj(<<>>)]
  ELSE [threw |-> ~Truthy(Get(identifier, K_pipelineId)),
        error |-> Error(MsgOptionsNeedPipelineId),
        customSlug |-> Undefined, normalizedOptions |-> identifier]

\* new FormData() with formData.append('file', blob)
FormData(blob) ==
  [t |-> "FormData", s |-> <<>>, n |-> 0, b |-> FALSE, props |-> <<<<K_file, blob>>>>]

\* a variant that starts from the two headers proxy starts from
PipelineRequestJsonHeader(url, no) ==
  LET file == Get(no, K_file)
      data == Get(no, K_data)
      headers == Spread(<<<<H_XApiKey, Str(apiKey)>>, <<H_ContentType, Str(ApplicationJson)>>>>,
                        GetOr(no, K_headers, Obj(<<>>)).props)
      Req(h, body) == [threw |-> FALSE, error |-> NoError,
                       request |-> [url |-> url, method |-> S_POST,
                                    headers |-> Obj(h), body |-> body]]
  IN IF Truthy(file)
     THEN (IF file.t \in {"File", "Blob"} THEN Req(headers, FormData(file))
           ELSE IF file.t \in {"Buffer", "Uint8Array"} THEN Req(headers, FormData(Binary("Blob")))
           ELSE [threw |-> TRUE, error |-> Error(MsgUnsupportedFile),
                 request |-> [url |-> url, method |-> S_POST,
                              headers |-> Obj(headers), body |-> Undefined]])
     ELSE IF Truthy(data)
     THEN Req(SetProp(headers, H_ContentType, Str(ApplicationJson)),
              Str(JsonStringify(Obj(<<<<K_data, data>>>>))))
     ELSE Req(headers, Undefined)

\* the request pipeline sends, or the error of an unsupported file
PipelineRequest(url, no) ==
  LET file == Get(no, K_file)
      data == Get(no, K_data)
      headers == Spread(<<<<H_XApiKey, Str(apiKey)>>>>, GetOr(no, K_headers, Obj(<<>>)).props)
      Req(h, body) == [threw |-> FALSE, error |-> NoError,
                       request |-> [url |-> url, method |-> S_POST,
                                    headers |-> Obj(h), body |-> body]]
  IN IF Truthy(file)
     THEN (IF file.t \in {"File", "Blob"} THEN Req(headers, FormData(file))
           ELSE IF file.t \in {"Buffer", "Uint8Array"} THEN Req(headers, FormData(Binary("Blob")))
           ELSE [threw |-> TRUE, error |-> Error(MsgUnsupportedFile),
                 request |-> [url |-> url, method |-> S_POST,
                              headers |-> Obj(headers), body |-> Undefined]])
     ELSE IF Truthy(data)
     THEN Req(SetProp(headers, H_ContentType, Str(ApplicationJson)),
              Str(JsonStringify(Obj(<<<<K_data, data>>>>))))
     ELSE Req(headers, Undefined)

\* `${this.baseUrl}/api/pipelines/execute/${pipelineId}`
PipelineIdUrl(pipelineId) == baseUrl \o PipelineExecuteRoute \o ToString(pipelineId)

\* `${this.baseUrl}/api/pipelines/custom/${companyId}/${customSlug.toLowerCase()}`
PipelineSlugUrl(tenant, customSlug) ==
  baseUrl \o PipelineCustomRoute \o ToString(tenant) \o <<"/">> \o ToLowerCase(customSlug.s)

\* build the request and fetch it, or reject for an unsupported file
PipelineSend(c, url, no) ==
  LET r == PipelineRequest(url, no)
  IN IF r.threw THEN Settle(c, Rejected(r.error)) ELSE Fetch(c, r.request)

\* if (pipelineId) ... else if (customSlug) ... else throw
PipelineTarget(pipelineId, customSlug) ==
  IF Truthy(pipelineId) THEN "id" ELSE IF Truthy(customSlug) THEN "slug" ELSE "none"

\* a variant without the payload check
PipelineHasPayloadUnchecked(no) == TRUE

\* if (!file && !data) throw
PipelineHasPayload(no) == Truthy(Get(no, K_file)) \/ Truthy(Get(no, K_data))

\* pipeline(identifier, options) up to its first await
Pipeline(c, identifier, options) ==
  /\ IsNextCall(c)
  /\ op' = [op EXCEPT ![c] = "pipeline"]
  /\ args' = [args EXCEPT ![c] = Invoked(identifier, options)]
  /\ UNCHANGED <<apiKey, baseUrl, companyId,
               globalInstance, created, lastSet>>
  /\ LET n == PipelineNormalize(identifier, options)
         no == n.normalizedOptions
         pipelineId == Get(no, K_pipelineId)
     IN IF n.threw
        THEN Settle(c, Rejected(n.error)) /\ UNCHANGED frame
        ELSE IF ~PipelineHasPayload(no)
        THEN Settle(c, Rejected(Error(MsgFileOrDataRequired))) /\ UNCHANGED frame
        ELSE IF PipelineTarget(pipelineId, n.customSlug) = "id"
        THEN PipelineSend(c, PipelineIdUrl(pipelineId), no) /\ UNCHANGED frame
        ELSE IF PipelineTarget(pipelineId, n.customSlug) = "slug"
        THEN /\ frame' = [frame EXCEPT ![c] = [customSlug |-> n.customSlug,
                                               normalizedOptions |-> no,
                                               companyId |-> GetCompanyId]]
             /\ pc' = [pc EXCEPT ![c] = "awaitCompanyId"]
             /\ UNCHANGED <<requests, fetched, outcome>>
        ELSE Settle(c, Rejected(Error(MsgNeedSlugOrPipelineId))) /\ UNCHANGED frame

\* a variant that reads this.companyId when it goes on, not when it was invoked
PipelineResumeLateTenant(c) ==
  /\ pc[c] = "awaitCompanyId"
  /\ op[c] = "pipeline"
  /\ UNCHANGED <<apiKey, baseUrl, companyId, op, args, frame,
               globalInstance, created, via, lastSet>>
  /\ IF GetCompanyId.threw
     THEN Settle(c, Rejected(GetCompanyId.error))
     ELSE PipelineSend(c, PipelineSlugUrl(GetCompanyId.value, frame[c].customSlug),
                       frame[c].normalizedOptions)

\* pipeline after `await this.getCompanyId()`, up to `await fetch(...)`
PipelineResume(c) ==
  /\ pc[c] = "awaitCompanyId"
  /\ op[c] = "pipeline"
  /\ UNCHANGED <<apiKey, baseUrl, companyId, op, args, frame,
               globalInstance, created, via, lastSet>>
  /\ IF frame[c].companyId.threw
     THEN Settle(c, Rejected(frame[c].companyId.error))
     ELSE PipelineSend(c, PipelineSlugUrl(frame[c].companyId.value, frame[c].customSlug),
                       frame[c].normalizedOptions)

\* the result pipeline returns for a CSV response
CsvResult(csvText) ==
  Obj(<<<<K_success, Bool(TRUE)>>, <<K_job_id, Str(<<>>)>>,
        <<K_result, Str(csvText)>>, <<K_status, Str(S_completed)>>>>)

\* a variant that takes a response for CSV only when its content type is text/csv alone
PipelineOutcomeCsvExact(response) ==
  IF ~Ok(response) THEN Rejected(ErrorFromResponse(response))
  ELSE IF response.contentType = Str(TextCsv)
  THEN Fulfilled(CsvResult(response.body.text))
  ELSE IF response.body.parses THEN Fulfilled(response.body.json)
  ELSE JsonRejected(response)

\* the outcome of pipeline for a response
PipelineOutcome(response) ==
  IF ~Ok(response) THEN Rejected(ErrorFromResponse(response))
  ELSE IF Truthy(response.contentType) /\ Includes(response.contentType.s, TextCsv)
  THEN Fulfilled(CsvResult(response.body.text))
  ELSE IF response.body.parses THEN Fulfilled(response.body.json)
  ELSE JsonRejected(response)

\* pipeline after `await fetch(...)` resolved with a response
PipelineResponse(c, response) ==
  /\ pc[c] = "awaitFetch"
  /\ op[c] = "pipeline"
  /\ Receive(c, Got(response), PipelineOutcome(response))
  /\ UNCHANGED <<apiKey, baseUrl, companyId, op, args, frame,
               globalInstance, created, via, lastSet>>

(* ----------------------------- transform ------------------------------ *)
\* the request transform sends
TransformRequest(mappingId, rawResponse) ==
  [url |-> baseUrl \o TransformRoute,
   method |-> S_POST,
   headers |-> Obj(<<<<H_XApiKey, Str(apiKey)>>, <<H_ContentType, Str(ApplicationJson)>>>>),
   body |-> Str(JsonStringify(Obj(<<<<K_mapping_id, mappingId>>,
                                    <<K_raw_response, rawResponse>>>>)))]

\* transform(options) up to `await fetch(...)`
Transform(c, options) ==
  /\ IsNextCall(c)
  /\ op' = [op EXCEPT ![c] = "transform"]
  /\ args' = [args EXCEPT ![c] = Invoked(Undefined, options)]
  /\ UNCHANGED <<apiKey, baseUrl, companyId, frame,
               globalInstance, created, lastSet>>
  /\ LET mappingId == Get(options, K_mappingId)
         rawResponse == Get(options, K_rawResponse)
     IN IF ~Truthy(mappingId) THEN Settle(c, Rejected(Error(MsgMappingIdRequired)))
        ELSE IF ~Truthy(rawResponse) THEN Settle(c, Rejected(Error(MsgRawResponseRequired)))
        ELSE Fetch(c, TransformRequest(mappingId, rawResponse))

\* the outcome of transform for a response
TransformOutcome(response) ==
  IF ~Ok(response) THEN Rejected(ErrorFromResponse(response))
  ELSE IF response.body.parses THEN Fulfilled(response.body.json)
  ELSE JsonRejected(response)

\* transform after `await fetch(...)` resolved with a response
TransformResponse(c, response) ==
  /\ pc[c] = "awaitFetch"
  /\ op[c] = "transform"
  /\ Receive(c, Got(response), TransformOutcome(response))
  /\ UNCHANGED <<apiKey, baseUrl, companyId, op, args, frame,
               globalInstance, created, via, lastSet>>

(* ------------------------------- fetch -------------------------------- *)
\* a variant that sends the request again when fetch rejects
FetchRejectedRetry(c, error) ==
  /\ pc[c] = "awaitFetch"
  /\ requests' = [requests EXCEPT ![c] = Append(@, @[Len(@)])]
  /\ UNCHANGED <<apiKey, baseUrl, companyId, pc, op, args, frame, fetched, outcome,
               globalInstance, created, via, lastSet>>

\* a variant that wraps the error of fetch in an Error of its own
FetchRejectedWrapped(c, error) ==
  /\ pc[c] = "awaitFetch"
  /\ Receive(c, GotError(error), Rejected(Error(error.message)))
  /\ UNCHANGED <<apiKey, baseUrl, companyId, op, args, frame,
               globalInstance, created, via, lastSet>>

\* `await fetch(...)` rejected: the error leaves the method as it came
FetchRejected(c, error) ==
  /\ pc[c] = "awaitFetch"
  /\ Receive(c, GotError(error), Rejected(error))
  /\ UNCHANGED <<apiKey, baseUrl, companyId, op, args, frame,
               globalInstance, created, via, lastSet>>

(* ---------------------------------------------------------------------- *)
(* The module: new Vegap, createInstance, init and the global object vegap *)
(* ---------------------------------------------------------------------- *)
\* the number of constructions in one behaviour
MaxCreated == 2

\* the object the constructor leaves: its three fields
Instance(r) == [null |-> FALSE, apiKey |-> r.apiKey, baseUrl |-> r.baseUrl, companyId |-> r.companyId]

\* new Vegap(config) called through `by`: the object it gives, or the error it throws
New(by, config) ==
  LET r == Constructor(config)
  IN [by |-> by, config |-> config, threw |-> r.threw, error |-> r.error,
      instance |-> IF r.threw THEN NoInstance ELSE Instance(r)]

\* no call of proxy, transform or pipeline has been made yet
NoCallYet == \A c \in Calls : pc[c] = "idle"

\* new Vegap(config) in the program using the SDK
NewVegap(config) ==
  /\ Len(created) < MaxCreated
  /\ created' = Append(created, New("new", config))
  /\ UNCHANGED <<apiKey, baseUrl, companyId, pc, op, args, frame, requests, fetched, outcome,
                 globalInstance, via, lastSet>>

\* createInstance(config): return new Vegap(config)
createInstance(config) ==
  /\ Len(created) < MaxCreated
  /\ created' = Append(created, New("createInstance", config))
  /\ UNCHANGED <<apiKey, baseUrl, companyId, pc, op, args, frame, requests, fetched, outcome,
                 globalInstance, via, lastSet>>

\* a variant that keeps the first global instance
initKeepsFirst(config) ==
  LET made == New("init", config)
  IN /\ Len(created) < MaxCreated
     /\ created' = Append(created, made)
     /\ globalInstance' = IF made.threw \/ ~globalInstance.null THEN globalInstance
                          ELSE made.instance
     /\ IF ~made.threw /\ globalInstance.null /\ NoCallYet
        THEN /\ apiKey' = made.instance.apiKey
             /\ baseUrl' = made.instance.baseUrl
             /\ companyId' = made.instance.companyId
        ELSE UNCHANGED <<apiKey, baseUrl, companyId>>
     /\ UNCHANGED <<pc, op, args, frame, requests, fetched, outcome, via, lastSet>>

\* init(config): globalInstance = new Vegap(config). The fields apiKey,
\* baseUrl and companyId are those of the object the call of vegap.* runs
\* on, the global instance as it is when that call is made: an init() after
\* it makes another object and leaves these fields as they are.
init(config) ==
  LET made == New("init", config)
  IN /\ Len(created) < MaxCreated
     /\ created' = Append(created, made)
     /\ globalInstance' = IF made.threw THEN globalInstance ELSE made.instance
     /\ IF ~made.threw /\ NoCallYet
        THEN /\ apiKey' = made.instance.apiKey
             /\ baseUrl' = made.instance.baseUrl
             /\ companyId' = made.instance.companyId
        ELSE UNCHANGED <<apiKey, baseUrl, companyId>>
     /\ UNCHANGED <<pc, op, args, frame, requests, fetched, outcome, via, lastSet>>

\* getInstance(): the global instance, or the error it throws
getInstance ==
  IF globalInstance.null
  THEN [threw |-> TRUE, error |-> Error(MsgNotInitialized), instance |-> NoInstance]
  ELSE [threw |-> FALSE, error |-> NoError, instance |-> globalInstance]

\* the call of vegap.fn(identifier, options), with what getInstance() gave it
Via(fn, identifier, options) ==
  [fn |-> fn, identifier |-> identifier, options |-> options, instance |-> getInstance.instance]

\* getInstance() threw inside vegap.fn: the error leaves vegap.fn, no method is called
NotInitialized(c, fn) ==
  /\ IsNextCall(c)
  /\ op' = [op EXCEPT ![c] = fn]
  /\ Settle(c, Thrown(getInstance.error))
  /\ UNCHANGED <<apiKey, baseUrl, companyId, args, frame, globalInstance, created, lastSet>>

\* a variant that passes the identifier on and drops the options
VegapProxyIdentifierOnly(c, identifier, options) ==
  /\ via' = [via EXCEPT ![c] = Via("proxy", identifier, options)]
  /\ IF getInstance.threw THEN NotInitialized(c, "proxy")
     ELSE Proxy(c, identifier, Undefined)

\* vegap.proxy(identifier, options): return getInstance().proxy(identifier, options)
VegapProxy(c, identifier, options) ==
  /\ via' = [via EXCEPT ![c] = Via("proxy", identifier, options)]
  /\ IF getInstance.threw THEN NotInitialized(c, "proxy")
     ELSE Proxy(c, identifier, options)

\* vegap.transform(options): return getInstance().transform(options)
VegapTransform(c, options) ==
  /\ via' = [via EXCEPT ![c] = Via("transform", Undefined, options)]
  /\ IF getInstance.threw THEN NotInitialized(c, "transform")
     ELSE Transform(c, options)

\* vegap.pipeline(identifier, options): return getInstance().pipeline(identifier, options)
VegapPipeline(c, identifier, options) ==
  /\ via' = [via EXCEPT ![c] = Via("pipeline", identifier, options)]
  /\ IF getInstance.threw THEN NotInitialized(c, "pipeline")
     ELSE Pipeline(c, identifier, options)

(* ---------------------------------------------------------------------- *)
(* Inputs: configurations, arguments and responses                         *)
(* ---------------------------------------------------------------------- *)
Tenant1 == Str(<<"T", "1">>)
Tenant2 == Str(<<"t", "2">>)
Key1 == Str(<<"k", "1">>)
Host1 == Str(<<"h", "t", "t", "p", ":", "/", "/", "h", "1">>)
Slug1 == Str(<<"A", "b">>)
Id1 == Str(<<"m", "1">>)
Empty == Str(<<>>)
Flat1 == Obj(<<<<<<"n">>, Str(<<"x">>)>>>>)

\* new Vegap(config) for these configurations; those without an apiKey throw
Configs ==
  {Obj(<<<<K_apiKey, k>>, <<K_companyId, t>>>>) :
     k \in {Key1, Empty, Undefined}, t \in {Tenant1, Undefined}}

\* the arguments of setCompanyId(companyId)
CompanyIds == {Tenant1, Tenant2}

\* proxy(identifier, options)
ProxyCalls ==
  {<<Slug1, Undefined>>,
   <<Empty, Undefined>>,
   <<Obj(<<<<K_mappingId, Id1>>>>), Undefined>>,
   <<Obj(<<<<K_query, Flat1>>>>), Undefined>>}

\* pipeline(identifier, options)
PipelineCalls ==
  {<<Slug1, Obj(<<<<K_data, Flat1>>>>)>>,
   <<Slug1, Undefined>>,
   <<Slug1, Obj(<<<<K_file, Str(<<"a", ".", "p", "d", "f">>)>>>>)>>,
   <<Empty, Obj(<<<<K_data, Flat1>>>>)>>,
   <<Obj(<<<<K_pipelineId, Id1>>, <<K_file, Binary("Blob")>>>>), Undefined>>,
   <<Obj(<<<<K_data, Flat1>>>>), Undefined>>}

\* transform(options)
TransformCalls ==
  {Obj(<<<<K_mappingId, Id1>>, <<K_rawResponse, Flat1>>>>),
   Obj(<<<<K_rawResponse, Flat1>>>>),
   Obj(<<<<K_mappingId, Id1>>>>)}

\* the body of a response: JSON text with its decoded value, or other text
JsonBody(v) == [parses |-> TRUE, json |-> v, text |-> JsonStringify(v), parseError |-> NoError]
TextBody(chars) ==
  [parses |-> FALSE, json |-> Undefined, text |-> chars,
   parseError |-> [name |-> "SyntaxError", message |-> <<"U", "n", "e", "x", "p", "e", "c", "t", "e", "d">>]]

Response(status, statusText, contentType, body) ==
  [status |-> status, statusText |-> statusText, contentType |-> contentType, body |-> body]

StatusOK == <<"O", "K">>
StatusNotFound == <<"N", "o", "t", " ", "F", "o", "u", "n", "d">>
StatusServerError == <<"S", "e", "r", "v", "e", "r", " ", "E", "r", "r", "o", "r">>
BadSlug == <<"b", "a", "d", " ", "s", "l", "u", "g">>

\* what the server may answer
Responses ==
  {Response(200, StatusOK, Str(ApplicationJson), JsonBody(Flat1)),
   Response(404, StatusNotFound, Str(ApplicationJson),
            JsonBody(Obj(<<<<K_error, Str(BadSlug)>>>>))),
   Response(500, StatusServerError, Null, TextBody(<<"o", "o", "p", "s">>))}

\* what fetch may reject with
FetchErrors == {TypeError(<<"f", "e", "t", "c", "h", " ", "f", "a", "i", "l", "e", "d">>)}

(* ---------------------------------------------------------------------- *)
(* Specification: concurrent calls on one client                           *)
(* ---------------------------------------------------------------------- *)
\* a client built by new Vegap(config), and no call made yet
Constructed(configs) ==
  /\ \E config \in configs :
       /\ ~Constructor(config).threw
       /\ apiKey = Constructor(config).apiKey
       /\ baseUrl = Constructor(config).baseUrl
       /\ companyId = Constructor(config).companyId
       /\ created = <<New("new", config)>>
  /\ pc = [c \in Calls |-> "idle"]
  /\ op = [c \in Calls |-> "none"]
  /\ args = [c \in Calls |-> NoArgs]
  /\ frame = [c \in Calls |-> NoFrame]
  /\ requests = [c \in Calls |-> <<>>]
  /\ fetched = [c \in Calls |-> NotFetched]
  /\ outcome = [c \in Calls |-> Pending]
  /\ globalInstance = NoInstance
  /\ via = [c \in Calls |-> NoVia]
  /\ lastSet = NeverSet

Init == Constructed(Configs)

Next ==
  \/ \E id \in CompanyIds : SetCompanyId(id)
  \/ \E c \in Calls, a \in ProxyCalls : Proxy(c, a[1], a[2]) /\ UNCHANGED via
  \/ \E c \in Calls : ProxyResume(c)
  \/ \E c \in Calls, r \in Responses : ProxyResponse(c, r)
  \/ \E c \in Calls, a \in PipelineCalls : Pipeline(c, a[1], a[2]) /\ UNCHANGED via
  \/ \E c \in Calls : PipelineResume(c)
  \/ \E c \in Calls, r \in Responses : PipelineResponse(c, r)
  \/ \E c \in Calls, o \in TransformCalls : Transform(c, o) /\ UNCHANGED via
  \/ \E c \in Calls, r \in Responses : TransformResponse(c, r)
  \/ \E c \in Calls, e \in FetchErrors : FetchRejected(c, e)

Spec == Init /\ [][Next]_vars

(* ---------------------------------------------------------------------- *)
(* Specification: one call, over many shapes of arguments                  *)
(* ---------------------------------------------------------------------- *)
MaxSlugLen == 2
MaxPathLen == 4

\* the strings over chars of length at most n
Strings(chars, n) == UNION {[1..k -> chars] : k \in 0..n}

Slugs == {Str(s) : s \in Strings({"A", "b"}, MaxSlugLen)}
Paths == {Str(s) : s \in Strings({"/", "a"}, MaxPathLen)}
Id2 == Str(<<"M", "2">>)
Query1 == Obj(<<<<<<"q">>, Str(<<"1">>)>>>>)
Query2 == Obj(<<<<<<"a">>, Str(<<"x", " ", "y">>)>>, <<<<"u">>, Undefined>>,
                <<<<"n">>, Num(10)>>, <<<<"f">>, Bool(TRUE)>>>>)

RequestConfigs ==
  {Obj(<<<<K_apiKey, Key1>>, <<K_baseUrl, u>>, <<K_companyId, t>>>>) :
     u \in {Host1, Undefined}, t \in {Tenant1, Empty, Undefined}}

MappingIdParts == {<<>>, <<<<K_mappingId, Id1>>>>, <<<<K_mappingId, Id2>>>>, <<<<K_mappingId, Empty>>>>}
PathParts == {<<>>} \cup {<<<<K_path, path>>>> : path \in Paths}
MethodParts == {<<>>, <<<<K_method, Str(S_GET)>>>>, <<<<K_method, Str(S_POST)>>>>,
                <<<<K_method, Undefined>>>>}
QueryParts == {<<>>, <<<<K_query, Query1>>>>, <<<<K_query, Query2>>>>}
BodyParts == {<<>>, <<<<K_body, Flat1>>>>, <<<<K_body, Str(<<"r", "a", "w">>)>>>>}
ExtraParts ==
  {<<>>,
   <<<<<<"i", "d">>, Str(<<"c", "/", "1">>)>>>>,
   <<<<<<"i", "d">>, Str(<<"c", "1">>)>>, <<<<"s", "k", "i", "p">>, Undefined>>,
     <<<<"l", "i", "m", "i", "t">>, Num(10)>>>>}

\* options that vary the route and the path
UrlOptions == {Obj(m \o p) : m \in MappingIdParts, p \in PathParts}

\* options that vary the keys present
ShapeOptions ==
  {Obj(x \o m \o q \o b \o i) :
     x \in ExtraParts, m \in MethodParts, q \in QueryParts, b \in BodyParts,
     i \in {<<>>, <<<<K_mappingId, Id1>>>>}}

RequestProxyCalls ==
  {<<slug, options>> : slug \in Slugs, options \in UrlOptions \cup {Undefined}}
  \cup {<<Slug1, options>> : options \in ShapeOptions}
  \cup {<<options, Undefined>> : options \in UrlOptions \cup ShapeOptions}

InitRequest == Constructed(RequestConfigs)

NextRequest ==
  \/ \E id \in CompanyIds : SetCompanyId(id)
  \/ \E a \in RequestProxyCalls : Proxy(1, a[1], a[2]) /\ UNCHANGED via
  \/ ProxyResume(1)
  \/ \E r \in Responses : ProxyResponse(1, r)
  \/ \E e \in FetchErrors : FetchRejected(1, e)

SpecRequest == InitRequest /\ [][NextRequest]_vars

(* ---------------------------------------------------------------------- *)
(* Specification: one call, over many responses                            *)
(* ---------------------------------------------------------------------- *)
StatusMoved == <<"M", "o", "v", "e", "d">>
CsvCharset == TextCsv \o <<";", " ", "c", "h", "a", "r", "s", "e", "t", "=", "u", "t", "f", "-", "8">>

StatusLines ==
  {<<200, StatusOK>>, <<299, <<>>>>, <<301, StatusMoved>>, <<400, <<>>>>,
   <<404, StatusNotFound>>, <<500, StatusServerError>>}

CsvUpperCase == <<"T", "E", "X", "T", "/", "C", "S", "V">>

ContentTypes == {Str(ApplicationJson), Str(TextCsv), Str(CsvCharset), Str(CsvUpperCase), Null}

Bodies ==
  {JsonBody(Flat1),
   JsonBody(Obj(<<<<K_error, Str(BadSlug)>>>>)),
   JsonBody(Obj(<<<<K_error, Str(BadSlug)>>, <<<<"c", "o", "d", "e">>, Num(7)>>>>)),
   JsonBody(Obj(<<<<K_error, Empty>>>>)),
   JsonBody(Obj(<<<<K_error, Num(5)>>>>)),
   JsonBody(Null),
   JsonBody(Str(BadSlug)),
   TextBody(<<"o", "o", "p", "s">>),
   TextBody(<<>>)}

ManyResponses ==
  {Response(line[1], line[2], contentType, body) :
     line \in StatusLines, contentType \in ContentTypes, body \in Bodies}

ResponseProxyCalls == {<<Slug1, Undefined>>, <<Obj(<<<<K_mappingId, Id1>>>>), Undefined>>}
ResponsePipelineCalls ==
  {<<Slug1, Obj(<<<<K_data, Flat1>>>>)>>,
   <<Obj(<<<<K_pipelineId, Id1>>, <<K_file, Binary("Blob")>>>>), Undefined>>}
ResponseTransformCalls == {Obj(<<<<K_mappingId, Id1>>, <<K_rawResponse, Flat1>>>>)}

NextResponse ==
  \/ \E id \in CompanyIds : SetCompanyId(id)
  \/ \E a \in ResponseProxyCalls : Proxy(1, a[1], a[2]) /\ UNCHANGED via
  \/ ProxyResume(1)
  \/ \E r \in ManyResponses : ProxyResponse(1, r)
  \/ \E a \in ResponsePipelineCalls : Pipeline(1, a[1], a[2]) /\ UNCHANGED via
  \/ PipelineResume(1)
  \/ \E r \in ManyResponses : PipelineResponse(1, r)
  \/ \E o \in ResponseTransformCalls : Transform(1, o) /\ UNCHANGED via
  \/ \E r \in ManyResponses : TransformResponse(1, r)
  \/ \E e \in FetchErrors : FetchRejected(1, e)

SpecResponse == Init /\ [][NextResponse]_vars

\* the continuation after `await this.getCompanyId()` is a microtask: the
\* event loop runs it once the calling code has returned
SpecResponseFair ==
  SpecResponse /\ WF_vars(ProxyResume(1)) /\ WF_vars(PipelineResume(1))

(* ---------------------------------------------------------------------- *)
(* Specification: one call, over methods, bodies, payloads and headers     *)
(* ---------------------------------------------------------------------- *)
OtherKey == Str(<<"k", "9">>)
TextPlain == Str(<<"t", "e", "x", "t", "/", "p", "l", "a", "i", "n">>)
H_Accept == <<"A", "c", "c", "e", "p", "t">>
H_xapikey == <<"x", "-", "a", "p", "i", "-", "k", "e", "y">>
Nested1 == Obj(<<<<<<"a">>, Flat1>>, <<<<"k">>, Num(12)>>, <<<<"z">>, Null>>>>)
Raw1 == Str(<<"r", "a", "w">>)

\* the headers option
CallerHeaders ==
  {Obj(<<>>),
   Obj(<<<<H_XApiKey, OtherKey>>>>),
   Obj(<<<<H_ContentType, TextPlain>>>>),
   Obj(<<<<H_Accept, TextPlain>>, <<H_ContentType, TextPlain>>, <<H_XApiKey, OtherKey>>>>),
   Obj(<<<<H_xapikey, OtherKey>>>>)}
HeaderParts == {<<>>} \cup {<<<<K_headers, h>>>> : h \in CallerHeaders}

\* the method and body options of proxy
SendMethodParts ==
  {<<>>} \cup {<<<<K_method, Str(m)>>>> : m \in {S_GET, S_POST, S_PUT, S_PATCH, S_DELETE}}
SendBodyParts ==
  {<<>>} \cup {<<<<K_body, b>>>> : b \in {Flat1, Nested1, Obj(<<>>), Raw1, Empty}}

SendProxyCalls ==
  {<<Slug1, Obj(m \o b \o h)>> : m \in SendMethodParts, b \in SendBodyParts, h \in HeaderParts}
  \cup {<<Obj(<<<<K_mappingId, Id1>>>> \o m \o b \o h), Undefined>> :
          m \in SendMethodParts, b \in SendBodyParts, h \in HeaderParts}

\* the file and data options of pipeline
FileParts ==
  {<<>>} \cup {<<<<K_file, f>>>> :
                 f \in {Binary("File"), Binary("Blob"), Binary("Buffer"), Binary("Uint8Array"),
                        Str(<<"a", ".", "p", "d", "f">>)}}
DataParts == {<<>>} \cup {<<<<K_data, d>>>> : d \in {Flat1, Nested1, Obj(<<>>), Raw1, Empty, Num(0)}}

SendPipelineCalls ==
  {<<Slug1, Obj(f \o d \o h)>> : f \in FileParts, d \in DataParts, h \in HeaderParts}
  \cup {<<Obj(<<<<K_pipelineId, Id1>>>> \o f \o d \o h), Undefined>> :
          f \in FileParts, d \in DataParts, h \in HeaderParts}

SendTransformCalls ==
  {Obj(<<<<K_mappingId, Id1>>, <<K_rawResponse, r>>>>) : r \in {Flat1, Nested1, Raw1}}

NextSend ==
  \/ \E id \in CompanyIds : SetCompanyId(id)
  \/ \E a \in SendProxyCalls : Proxy(1, a[1], a[2]) /\ UNCHANGED via
  \/ ProxyResume(1)
  \/ \E r \in Responses : ProxyResponse(1, r)
  \/ \E a \in SendPipelineCalls : Pipeline(1, a[1], a[2]) /\ UNCHANGED via
  \/ PipelineResume(1)
  \/ \E r \in Responses : PipelineResponse(1, r)
  \/ \E o \in SendTransformCalls : Transform(1, o) /\ UNCHANGED via
  \/ \E r \in Responses : TransformResponse(1, r)
  \/ \E e \in FetchErrors : FetchRejected(1, e)

SpecSend == Init /\ [][NextSend]_vars

(* ---------------------------------------------------------------------- *)
(* Specification: the module, from its load on, and one call of vegap.*    *)
(* ---------------------------------------------------------------------- *)
Key2 == Str(<<"k", "2">>)

\* the configurations given to new Vegap, createInstance and init
ModuleConfigs ==
  {Obj(<<<<K_apiKey, k>>, <<K_companyId, t>>>>) :
     k \in {Key1, Key2, Empty, Undefined, Null}, t \in {Tenant1, Undefined}}

\* vegap.proxy(identifier, options)
ModuleProxyCalls == ProxyCalls \cup {<<Slug1, Flat1>>}

\* the module is loaded: no instance, no construction, no call
InitModule ==
  /\ apiKey = NoInstance.apiKey
  /\ baseUrl = NoInstance.baseUrl
  /\ companyId = NoInstance.companyId
  /\ pc = [c \in Calls |-> "idle"]
  /\ op = [c \in Calls |-> "none"]
  /\ args = [c \in Calls |-> NoArgs]
  /\ frame = [c \in Calls |-> NoFrame]
  /\ requests = [c \in Calls |-> <<>>]
  /\ fetched = [c \in Calls |-> NotFetched]
  /\ outcome = [c \in Calls |-> Pending]
  /\ globalInstance = NoInstance
  /\ created = <<>>
  /\ via = [c \in Calls |-> NoVia]
  /\ lastSet = NeverSet

NextModule ==
  \/ \E config \in ModuleConfigs : NewVegap(config)
  \/ \E config \in ModuleConfigs : createInstance(config)
  \/ \E config \in ModuleConfigs : init(config)
  \/ \E a \in ModuleProxyCalls : VegapProxy(1, a[1], a[2])
  \/ ProxyResume(1)
  \/ \E r \in Responses : ProxyResponse(1, r)
  \/ \E a \in PipelineCalls : VegapPipeline(1, a[1], a[2])
  \/ PipelineResume(1)
  \/ \E r \in Responses : PipelineResponse(1, r)
  \/ \E o \in TransformCalls : VegapTransform(1, o)
  \/ \E r \in Responses : TransformResponse(1, r)
  \/ \E e \in FetchErrors : FetchRejected(1, e)

SpecModule == InitModule /\ [][NextModule]_vars

(* ---------------------------------------------------------------------- *)
(* Specification: the configuration changes while one call is in flight    *)
(* ---------------------------------------------------------------------- *)
\* the configurations given to init
TenantConfigs ==
  {Obj(<<<<K_apiKey, k>>, <<K_companyId, t>>>>) :
     k \in {Key1, Key2}, t \in {Tenant1, Tenant2, Undefined}}

\* the program built its client with new Vegap and calls its methods;
\* otherwise it uses init and the global object vegap, whose instance no
\* code outside the module can reach (getInstance is not exported)
OwnClient == created # <<>> /\ created[1].by = "new"

InitTenant == InitModule \/ Constructed(Configs)

NextTenant ==
  \/ \E id \in CompanyIds : OwnClient /\ SetCompanyId(id)
  \/ \E a \in ProxyCalls : OwnClient /\ Proxy(1, a[1], a[2]) /\ UNCHANGED via
  \/ \E a \in PipelineCalls : OwnClient /\ Pipeline(1, a[1], a[2]) /\ UNCHANGED via
  \/ \E config \in TenantConfigs : ~OwnClient /\ init(config)
  \/ \E a \in ProxyCalls : ~OwnClient /\ VegapProxy(1, a[1], a[2])
  \/ \E a \in PipelineCalls : ~OwnClient /\ VegapPipeline(1, a[1], a[2])
  \/ ProxyResume(1)
  \/ \E r \in Responses : ProxyResponse(1, r)
  \/ PipelineResume(1)
  \/ \E r \in Responses : PipelineResponse(1, r)
  \/ \E e \in FetchErrors : FetchRejected(1, e)

SpecTenant == InitTenant /\ [][NextTenant]_vars

(* ---------------------------------------------------------------------- *)
(* Specification: one call given a slug and options that may hold an id    *)
(* ---------------------------------------------------------------------- *)
BothSlugs == {Slug1, Str(<<"b">>), Empty}
BothIds == {Id1, Id2, Empty}
BothPathParts == {<<>>, <<<<K_path, Str(<<"/", "a">>)>>>>, <<<<K_path, Str(<<"a", "/", "a">>)>>>>}

\* proxy(slug, options) and proxy(slug)
BothProxyCalls ==
  {<<slug, Obj(<<<<K_mappingId, id>>>> \o p \o q \o m)>> :
     slug \in BothSlugs, id \in BothIds, p \in BothPathParts, q \in QueryParts,
     m \in {<<>>, <<<<K_method, Str(S_POST)>>, <<K_body, Flat1>>>>}}
  \cup {<<slug, Undefined>> : slug \in BothSlugs}

\* pipeline(slug, options) and pipeline(slug)
BothPipelineCalls ==
  {<<slug, Obj(<<<<K_pipelineId, id>>>> \o f \o d)>> :
     slug \in BothSlugs, id \in BothIds, f \in FileParts,
     d \in {<<>>, <<<<K_data, Flat1>>>>, <<<<K_data, Empty>>>>}}
  \cup {<<slug, Undefined>> : slug \in BothSlugs}

NextBoth ==
  \/ \E id \in CompanyIds : SetCompanyId(id)
  \/ \E a \in BothProxyCalls : Proxy(1, a[1], a[2]) /\ UNCHANGED via
  \/ ProxyResume(1)
  \/ \E r \in Responses : ProxyResponse(1, r)
  \/ \E a \in BothPipelineCalls : Pipeline(1, a[1], a[2]) /\ UNCHANGED via
  \/ PipelineResume(1)
  \/ \E r \in Responses : PipelineResponse(1, r)
  \/ \E e \in FetchErrors : FetchRejected(1, e)

SpecBoth == InitRequest /\ [][NextBoth]_vars

(* ---------------------------------------------------------------------- *)
(* Properties                                                              *)
(* ---------------------------------------------------------------------- *)
ConfigMessages ==
  {MsgOptionsNeedMappingId, MsgNeedSlugOrMappingId, MsgOptionsNeedPipelineId,
   MsgFileOrDataRequired, MsgNeedSlugOrPipelineId, MsgUnsupportedFile,
   MsgMappingIdRequired, MsgRawResponseRequired, MsgCompanyIdRequired}

\* the call was rejected with an error the SDK raised before any request
IsConfigError(out) ==
  out.kind = "rejected" /\ out.error.name = "Error" /\ out.error.message \in ConfigMessages

RejectedWith(out, message) ==
  out.kind = "rejected" /\ out.error.name = "Error" /\ out.error.message = message

NothingSent(c) == requests[c] = <<>> /\ fetched[c].kind = "none"

Missing(v) == v.t = "undefined"
NonEmptyString(v) == v.t = "string" /\ v.s # <<>>
NotConfigured(v) == v.t = "undefined" \/ (v.t = "string" /\ v.s = <<>>)

IdKey(c) == IF op[c] = "pipeline" THEN K_pipelineId ELSE K_mappingId

\* the options object of a call: the first argument when it is not a slug
OptionsOf(c) ==
  IF args[c].identifier.t = "string" THEN args[c].options ELSE args[c].identifier

\* the call names its target by an opaque id
IdBased(c) == op[c] \in {"proxy", "pipeline"} /\ NonEmptyString(Get(OptionsOf(c), IdKey(c)))

\* the call names its target by a slug and gives no id
SlugBased(c) ==
  /\ op[c] \in {"proxy", "pipeline"}
  /\ NonEmptyString(args[c].identifier)
  /\ ~NonEmptyString(Get(args[c].options, IdKey(c)))

\* the call gives neither a slug nor an id
NoIdentifier(c) ==
  /\ op[c] \in {"proxy", "pipeline"}
  /\ \/ args[c].identifier.t # "string" /\ ~NonEmptyString(Get(args[c].identifier, IdKey(c)))
     \/ args[c].identifier = Empty /\ ~NonEmptyString(Get(args[c].options, IdKey(c)))

\* C1: every call of proxy, transform or pipeline makes at most one request:
\* none while it has not reached fetch, exactly one once it has, none at all
\* when it ends with an error raised before fetch, and still exactly one
\* after fetch rejected or answered with a non-2xx status (no retry).
C1_OneRequestPerCall ==
  \A c \in Calls :
    /\ Len(requests[c]) <= 1
    /\ pc[c] \in {"idle", "awaitCompanyId"} => requests[c] = <<>>
    /\ pc[c] = "awaitFetch" => Len(requests[c]) = 1
    /\ pc[c] = "done" =>
         /\ IsConfigError(outcome[c]) <=> requests[c] = <<>>
         /\ fetched[c].kind = "none" <=> requests[c] = <<>>

C1_Witness ==
  \E c, d \in Calls :
    /\ pc[c] = "done" /\ fetched[c].kind = "error" /\ Len(requests[c]) = 1
    /\ pc[d] = "done" /\ fetched[d].kind = "response" /\ ~Ok(fetched[d].response)
    /\ Len(requests[d]) = 1

\* C2: a proxy or pipeline call that gives neither a slug nor an id (an
\* options object without mappingId / pipelineId as first argument, or an
\* empty slug with no id in the options) is rejected with a configuration
\* error and makes no request.
C2_NoIdentifierFails ==
  \A c \in Calls :
    pc[c] # "idle" /\ NoIdentifier(c) =>
      pc[c] = "done" /\ IsConfigError(outcome[c]) /\ NothingSent(c)

C2_Witness ==
  \E c, d \in Calls :
    /\ op[c] = "proxy" /\ NoIdentifier(c) /\ pc[c] = "done"
    /\ op[d] = "pipeline" /\ NoIdentifier(d) /\ pc[d] = "done"

\* the pipeline call carries neither a file nor data
NoPayload(c) == ~Truthy(Get(OptionsOf(c), K_file)) /\ ~Truthy(Get(OptionsOf(c), K_data))

\* C3 as stated: a slug-based proxy or pipeline call on a client without a
\* company id fails with 'Company ID is required' and makes no request.
C3_AsStated ==
  \A c \in Calls :
    pc[c] = "done" /\ SlugBased(c) /\ NotConfigured(args[c].this.companyId) =>
      RejectedWith(outcome[c], MsgCompanyIdRequired) /\ NothingSent(c)

\* C3: a slug-based proxy or pipeline call on a client without a company id
\* never makes a request, and it is rejected with 'Company ID is required',
\* except that a pipeline call without file and data is rejected with
\* 'Either file or data must be provided', which is checked first.
C3_TenantRequired ==
  \A c \in Calls :
    pc[c] # "idle" /\ SlugBased(c) /\ NotConfigured(args[c].this.companyId) =>
      /\ NothingSent(c)
      /\ pc[c] = "done" =>
           IF op[c] = "pipeline" /\ NoPayload(c)
           THEN RejectedWith(outcome[c], MsgFileOrDataRequired)
           ELSE RejectedWith(outcome[c], MsgCompanyIdRequired)

C3_Witness ==
  \E c, d \in Calls :
    /\ op[c] = "proxy" /\ SlugBased(c) /\ NotConfigured(args[c].this.companyId)
    /\ RejectedWith(outcome[c], MsgCompanyIdRequired)
    /\ op[d] = "pipeline" /\ SlugBased(d) /\ NotConfigured(args[d].this.companyId)
    /\ RejectedWith(outcome[d], MsgCompanyIdRequired)

\* C10: a transform call without mappingId or without rawResponse, and a
\* pipeline call without file and data, are rejected with a configuration
\* error and make no request.
C10_MissingFieldFails ==
  \A c \in Calls :
    /\ pc[c] # "idle" /\ op[c] = "transform"
         /\ (Missing(Get(args[c].options, K_mappingId))
             \/ Missing(Get(args[c].options, K_rawResponse))) =>
         /\ pc[c] = "done" /\ NothingSent(c)
         /\ RejectedWith(outcome[c],
                         IF Missing(Get(args[c].options, K_mappingId))
                         THEN MsgMappingIdRequired ELSE MsgRawResponseRequired)
    /\ pc[c] # "idle" /\ op[c] = "pipeline"
         /\ Missing(Get(OptionsOf(c), K_file)) /\ Missing(Get(OptionsOf(c), K_data)) =>
         /\ pc[c] = "done" /\ NothingSent(c)
         /\ IsConfigError(outcome[c])

C10_Witness ==
  \E c, d \in Calls :
    /\ op[c] = "transform" /\ Missing(Get(args[c].options, K_rawResponse)) /\ pc[c] = "done"
    /\ op[d] = "pipeline" /\ Missing(Get(OptionsOf(d), K_file))
    /\ Missing(Get(OptionsOf(d), K_data)) /\ pc[d] = "done"

(* ------------------------- the request that went out ------------------- *)
Sent(c) == Len(requests[c]) = 1
Url(c) == requests[c][1].url

HasPrefix(str, pre) == Len(pre) <= Len(str) /\ SubSeq(str, 1, Len(pre)) = pre

\* the url up to its first "?", and what follows that "?"
QuestionMark(url) ==
  IF \E i \in DOMAIN url : url[i] = "?"
  THEN CHOOSE i \in DOMAIN url : url[i] = "?" /\ \A j \in 1..(i - 1) : url[j] # "?"
  ELSE Len(url) + 1
PathOf(url) == SubSeq(url, 1, QuestionMark(url) - 1)
QueryOf(url) == SubSeq(url, QuestionMark(url) + 1, Len(url))

LowerOfSlugChar(ch) == CASE ch = "A" -> "a" [] ch = "B" -> "b" [] OTHER -> ch
LowerOfSlug(slug) == [i \in DOMAIN slug |-> LowerOfSlugChar(slug[i])]

\* the url of the route of a proxy call, before path and query
TargetUrl(c) ==
  IF IdBased(c)
  THEN args[c].this.baseUrl \o ProxyRoute \o Get(OptionsOf(c), K_mappingId).s
  ELSE args[c].this.baseUrl \o ProxyCustomRoute \o args[c].this.companyId.s
       \o <<"/">> \o LowerOfSlug(args[c].identifier.s)

Structured(o) == o.t = "object" /\ \E key \in RecognizedKeys : HasKey(o, key)
Simple(o) == o.t = "object" /\ \A key \in RecognizedKeys : ~HasKey(o, key)

QueryEntries(o) == IF Structured(o) THEN Get(o, K_query).props ELSE o.props

\* the call gives no path and no query parameter
NoPathNoQuery(c) ==
  /\ ~NonEmptyString(Get(OptionsOf(c), K_path))
  /\ OptionsOf(c).t = "undefined" \/ QueryEntries(OptionsOf(c)) = <<>>

IsDefined(entry) == entry[2].t \notin {"undefined", "null"}
AsParam(entry) == <<entry[1], ToString(entry[2])>>

\* the query string of the entries that have a value
QueryString(entries) ==
  LET defined == SelectSeq(entries, IsDefined)
  IN SerializeParams([i \in DOMAIN defined |-> AsParam(defined[i])])

\* C4: a slug-based proxy call on a client with a company id, without path
\* and query, sends its request to {base}/api/proxy/custom/{company id}/
\* {slug in lower case}; the company id is used as it is.
C4_SlugUrl ==
  \A c \in Calls :
    /\ op[c] = "proxy" /\ SlugBased(c) /\ NonEmptyString(args[c].this.companyId)
    /\ NoPathNoQuery(c) /\ pc[c] \in {"awaitFetch", "done"}
    => Sent(c) /\ Url(c) = TargetUrl(c)

C4_Witness ==
  \E c \in Calls :
    /\ op[c] = "proxy" /\ SlugBased(c) /\ NoPathNoQuery(c) /\ Sent(c)
    /\ args[c].identifier.s = <<"A", "b">> /\ args[c].this.companyId = Tenant1
    /\ args[c].this.baseUrl = DefaultBaseUrl

\* C5: an id-based proxy call sends its request at once, to
\* {base}/api/proxy/{id} followed by its path and query, whatever the
\* company id is; two such calls with the same arguments send the same url.
C5_IdUrl ==
  \A c \in Calls :
    op[c] = "proxy" /\ IdBased(c) /\ pc[c] # "idle" =>
      /\ Sent(c)
      /\ HasPrefix(Url(c), TargetUrl(c))
      /\ NoPathNoQuery(c) => Url(c) = TargetUrl(c)
      /\ \A d \in Calls :
           /\ op[d] = "proxy" /\ pc[d] # "idle"
           /\ args[d].identifier = args[c].identifier
           /\ args[d].options = args[c].options
           => Sent(d) /\ Url(d) = Url(c)

C5_Witness ==
  \E c, d \in Calls :
    /\ op[c] = "proxy" /\ IdBased(c) /\ Sent(c) /\ Missing(args[c].this.companyId)
    /\ op[d] = "proxy" /\ IdBased(d) /\ Sent(d) /\ args[d].this.companyId = Tenant2
    /\ companyId = Tenant1

\* C6 as stated: with a slug and options without a recognized key, every
\* entry of the options is a query parameter of the request, the method is
\* GET and there is no body.
C6_AsStated ==
  \A c \in Calls :
    op[c] = "proxy" /\ args[c].identifier.t = "string" /\ Simple(args[c].options) /\ Sent(c) =>
      /\ requests[c][1].method = S_GET
      /\ requests[c][1].body = Undefined
      /\ \A i \in DOMAIN args[c].options.props :
           Includes(QueryOf(Url(c)), FormEncode(args[c].options.props[i][1]) \o <<"=">>)

\* C6: with a slug and options without a recognized key, the query string
\* of the request is made of the entries of the options whose value is not
\* undefined or null, in their order; the method is GET and there is no body.
C6_SimpleOptionsAreQuery ==
  \A c \in Calls :
    op[c] = "proxy" /\ args[c].identifier.t = "string" /\ Simple(args[c].options) /\ Sent(c) =>
      /\ requests[c][1].method = S_GET
      /\ requests[c][1].body = Undefined
      /\ QueryOf(Url(c)) = QueryString(args[c].options.props)

C6_Witness ==
  \E c \in Calls :
    /\ op[c] = "proxy" /\ args[c].identifier.t = "string" /\ Simple(args[c].options) /\ Sent(c)
    /\ \E i \in DOMAIN args[c].options.props : ~IsDefined(args[c].options.props[i])
    /\ \E i \in DOMAIN args[c].options.props : IsDefined(args[c].options.props[i])

\* C7: when the options of a proxy call have a recognized key, the query
\* string of the request is made of the entries of options.query alone; no
\* other key of the options gets into it.
C7_StructuredOptions ==
  \A c \in Calls :
    op[c] = "proxy" /\ Structured(OptionsOf(c)) /\ Sent(c) =>
      QueryOf(Url(c)) = QueryString(Get(OptionsOf(c), K_query).props)

C7_Witness ==
  \E c \in Calls :
    /\ op[c] = "proxy" /\ Structured(OptionsOf(c)) /\ Sent(c)
    /\ HasKey(OptionsOf(c), <<"i", "d">>)
    /\ ~HasKey(OptionsOf(c), K_query)
    /\ args[c].identifier.t = "string"

StripOne(path) == IF path # <<>> /\ path[1] = "/" THEN SubSeq(path, 2, Len(path)) ELSE path
PathGiven(c) == Get(OptionsOf(c), K_path).t = "string"
GivenPath(c) == Get(OptionsOf(c), K_path).s

\* C8 as stated: for every non-empty path given to proxy, the url is the url of the
\* route, one "/", and the path without one leading "/", and there is no
\* double slash between the route and the path.
C8_AsStated ==
  \A c \in Calls :
    op[c] = "proxy" /\ PathGiven(c) /\ GivenPath(c) # <<>> /\ Sent(c) =>
      /\ PathOf(Url(c)) = TargetUrl(c) \o <<"/">> \o StripOne(GivenPath(c))
      /\ ~HasPrefix(PathOf(Url(c)), TargetUrl(c) \o <<"/", "/">>)

\* C8: for every non-empty path given to proxy, the url is the url of the
\* route, one "/", and the path without one leading "/"; a double slash
\* follows the route exactly when the path begins with two slashes; an
\* empty path adds nothing.
C8_PathAppended ==
  \A c \in Calls :
    op[c] = "proxy" /\ PathGiven(c) /\ Sent(c) =>
      IF GivenPath(c) = <<>> THEN PathOf(Url(c)) = TargetUrl(c)
      ELSE /\ PathOf(Url(c)) = TargetUrl(c) \o <<"/">> \o StripOne(GivenPath(c))
           /\ HasPrefix(PathOf(Url(c)), TargetUrl(c) \o <<"/", "/">>)
                <=> HasPrefix(GivenPath(c), <<"/", "/">>)

C8_Witness ==
  \E c \in Calls :
    /\ op[c] = "proxy" /\ Sent(c) /\ SlugBased(c)
    /\ PathGiven(c) /\ GivenPath(c) = <<"/", "a", "/", "a">>
    /\ PathOf(Url(c)) = TargetUrl(c) \o <<"/", "a", "/", "a">>

StatusDigits(status) ==
  CASE status = 301 -> <<"3", "0", "1">>
    [] status = 400 -> <<"4", "0", "0">>
    [] status = 404 -> <<"4", "0", "4">>
    [] status = 500 -> <<"5", "0", "0">>

\* C9: when the response is not 2xx, a body that is a JSON object with a
\* non-empty string `error` makes the call fail with exactly that string,
\* and a body that is not JSON makes it fail with
\* 'HTTP <status>: <statusText>'; for proxy, transform and pipeline alike.
C9_ErrorMessage ==
  \A c \in Calls :
    LET r == fetched[c].response
    IN pc[c] = "done" /\ fetched[c].kind = "response" /\ (r.status < 200 \/ r.status > 299) =>
         /\ r.body.parses /\ r.body.json.t = "object" /\ NonEmptyString(Get(r.body.json, K_error))
              => RejectedWith(outcome[c], Get(r.body.json, K_error).s)
         /\ ~r.body.parses =>
              /\ RejectedWith(outcome[c], HttpPrefix \o StatusDigits(r.status)
                                          \o <<":", " ">> \o r.statusText)
              /\ Includes(outcome[c].error.message, StatusDigits(r.status))

C9_Witness ==
  \E c \in Calls :
    /\ op[c] = "pipeline" /\ pc[c] = "done" /\ fetched[c].kind = "response"
    /\ fetched[c].response.status = 404
    /\ fetched[c].response.body.json = Obj(<<<<K_error, Str(BadSlug)>>>>)
    /\ outcome[c].error.message = BadSlug

(* ------------------------- what a call gave back ----------------------- *)
\* the response call c got, once it has one
Answered(c) == pc[c] = "done" /\ fetched[c].kind = "response"
Success(c) == Answered(c) /\ fetched[c].response.status \in 200..299

\* the content type is a string in which text/csv occurs
DeclaresCsv(contentType) ==
  /\ contentType.t = "string"
  /\ \E i \in 1..Len(contentType.s) :
       HasPrefix(SubSeq(contentType.s, i, Len(contentType.s)), TextCsv)

\* C11: a pipeline call that gets a 2xx response whose content type contains
\* text/csv is fulfilled with {success: true, job_id: '', result: the text of
\* the body as it came, status: 'completed'}; with any other content type,
\* or none, it is fulfilled with the decoded JSON body as it is, and when
\* the body is not JSON it is not fulfilled at all.
C11_CsvPassthrough ==
  \A c \in Calls :
    LET r == fetched[c].response
    IN op[c] = "pipeline" /\ Success(c) =>
         IF DeclaresCsv(r.contentType)
         THEN /\ outcome[c].kind = "fulfilled"
              /\ outcome[c].value.props =
                   <<<<K_success, Bool(TRUE)>>, <<K_job_id, Str(<<>>)>>,
                     <<K_result, Str(r.body.text)>>, <<K_status, Str(S_completed)>>>>
         ELSE IF r.body.parses
         THEN outcome[c].kind = "fulfilled" /\ outcome[c].value = r.body.json
         ELSE outcome[c].kind = "rejected" /\ outcome[c].error = r.body.parseError

C11_Witness ==
  \E c \in Calls :
    /\ op[c] = "pipeline" /\ Success(c)
    /\ fetched[c].response.contentType = Str(CsvCharset)
    /\ fetched[c].response.body = JsonBody(Flat1)
    /\ outcome[c].kind = "fulfilled"
    /\ Get(outcome[c].value, K_result) = Str(JsonStringify(Flat1))

(* ------------------------------ the module ----------------------------- *)
\* the configuration has no credential: apiKey is missing, null or empty
NoCredential(config) == ~NonEmptyString(Get(config, K_apiKey))

\* the value of a header of the request call c sent
Header(c, name) == Get(requests[c][1].headers, name)

\* C12: every new Vegap(config), createInstance(config) and init(config)
\* whose apiKey is missing or empty throws 'API key is required' and gives
\* no object; the global instance is never an object without apiKey; while
\* no init() has succeeded there is no global instance and no request has
\* been made, and every request carries the apiKey of an init() that
\* succeeded.
C12_ApiKeyRequired ==
  /\ \A i \in DOMAIN created :
       NoCredential(created[i].config) =>
         /\ created[i].threw
         /\ created[i].error = [name |-> "Error", message |-> MsgApiKeyRequired]
         /\ created[i].instance.null
  /\ ~globalInstance.null => globalInstance.apiKey # <<>>
  /\ (\A i \in DOMAIN created : created[i].by = "init" => NoCredential(created[i].config)) =>
       /\ globalInstance.null
       /\ \A c \in Calls : requests[c] = <<>> /\ pc[c] \in {"idle", "done"}
  /\ \A c \in Calls :
       requests[c] # <<>> =>
         \E i \in DOMAIN created :
           /\ created[i].by = "init" /\ ~NoCredential(created[i].config)
           /\ Header(c, H_XApiKey) = Get(created[i].config, K_apiKey)

C12_Witness ==
  /\ \E i, j \in DOMAIN created :
       /\ created[i].by = "init" /\ Get(created[i].config, K_apiKey) = Empty
       /\ created[j].by = "createInstance" /\ Get(created[j].config, K_apiKey) = Undefined
       /\ created[i].threw /\ created[j].threw
  /\ pc[1] = "done" /\ requests[1] = <<>>

(* ------------------------------ headers -------------------------------- *)
\* the headers the caller gave, an empty object when there are none
CallerHeadersOf(c) ==
  IF op[c] \in {"proxy", "pipeline"} /\ Get(OptionsOf(c), K_headers).t = "object"
  THEN Get(OptionsOf(c), K_headers) ELSE Obj(<<>>)

DefaultHeader(c, name) ==
  IF name = H_XApiKey THEN Str(args[c].this.apiKey) ELSE Str(ApplicationJson)

\* the pipeline call uploads a file
WithFile(c) == op[c] = "pipeline" /\ Truthy(Get(OptionsOf(c), K_file))

\* C13 as stated: every request carries X-API-Key with the configured apiKey
\* and Content-Type: application/json, unless the caller of proxy or
\* pipeline gave a header of that name, whose value is then sent instead.
C13_AsStated ==
  \A c \in Calls :
    Sent(c) =>
      \A name \in {H_XApiKey, H_ContentType} :
        Header(c, name) = IF HasKey(CallerHeadersOf(c), name)
                          THEN Get(CallerHeadersOf(c), name)
                          ELSE DefaultHeader(c, name)

\* C13: every request carries X-API-Key with the configured apiKey unless
\* the caller of proxy or pipeline gave a header X-API-Key, which is sent
\* instead. A transform request carries Content-Type: application/json; a
\* proxy request carries it unless the caller gave a Content-Type, which is
\* sent instead; a pipeline request with data and no file carries
\* Content-Type: application/json whatever the caller gave; a pipeline
\* request with a file carries the Content-Type of the caller, or none.
\* Every other header of the caller is sent as given.
C13_Headers ==
  \A c \in Calls :
    Sent(c) =>
      /\ Header(c, H_XApiKey) = IF HasKey(CallerHeadersOf(c), H_XApiKey)
                                THEN Get(CallerHeadersOf(c), H_XApiKey)
                                ELSE Str(args[c].this.apiKey)
      /\ Header(c, H_ContentType) =
           IF WithFile(c) THEN Get(CallerHeadersOf(c), H_ContentType)
           ELSE IF op[c] = "proxy" /\ HasKey(CallerHeadersOf(c), H_ContentType)
           THEN Get(CallerHeadersOf(c), H_ContentType)
           ELSE Str(ApplicationJson)
      /\ WithFile(c) /\ ~HasKey(CallerHeadersOf(c), H_ContentType)
           => ~HasKey(requests[c][1].headers, H_ContentType)
      /\ \A i \in DOMAIN CallerHeadersOf(c).props :
           LET h == CallerHeadersOf(c).props[i]
           IN h[1] \notin {H_XApiKey, H_ContentType} => Header(c, h[1]) = h[2]

C13_Witness ==
  \E c \in Calls :
    /\ op[c] = "proxy" /\ Sent(c)
    /\ Get(CallerHeadersOf(c), H_XApiKey) = OtherKey
    /\ Get(CallerHeadersOf(c), H_ContentType) = TextPlain
    /\ Header(c, H_XApiKey) = OtherKey
    /\ Header(c, H_ContentType) = TextPlain
    /\ Header(c, H_Accept) = TextPlain

(* ------------------------------ payloads ------------------------------- *)
FileOf(c) == Get(OptionsOf(c), K_file)
DataOf(c) == Get(OptionsOf(c), K_data)
FileClasses == {"File", "Blob", "Buffer", "Uint8Array"}

\* {"data":{"n":"x"}}
DataFlat1Text ==
  <<"{", "\"", "d", "a", "t", "a", "\"", ":", "{", "\"", "n", "\"", ":", "\"", "x", "\"", "}", "}">>

\* C14: every request of pipeline has method POST. When the call has a file
\* (a File, Blob, Buffer or Uint8Array) the body is a FormData with the one
\* field `file` (the file, or a Blob made of the buffer) and the request has
\* no Content-Type but the one the caller gave, if any; when it has data and
\* no file the body is the JSON text of {data} and Content-Type is
\* application/json. An id-based call with such a file or with data sends
\* its request at once.
C14_PipelinePayload ==
  \A c \in Calls :
    op[c] = "pipeline" =>
      /\ Sent(c) =>
           /\ requests[c][1].method = S_POST
           /\ Truthy(FileOf(c)) =>
                /\ FileOf(c).t \in FileClasses
                /\ requests[c][1].body.t = "FormData"
                /\ requests[c][1].body.props =
                     <<<<K_file, IF FileOf(c).t \in {"File", "Blob"} THEN FileOf(c)
                                 ELSE Binary("Blob")>>>>
                /\ Header(c, H_ContentType) = Get(CallerHeadersOf(c), H_ContentType)
           /\ ~Truthy(FileOf(c)) =>
                /\ Truthy(DataOf(c))
                /\ requests[c][1].body = Str(JsonStringify(Obj(<<<<K_data, DataOf(c)>>>>)))
                /\ DataOf(c) = Flat1 => requests[c][1].body.s = DataFlat1Text
                /\ Header(c, H_ContentType) = Str(ApplicationJson)
      /\ pc[c] # "idle" /\ IdBased(c)
           /\ (FileOf(c).t \in FileClasses \/ (~Truthy(FileOf(c)) /\ Truthy(DataOf(c))))
           => Sent(c)

C14_Witness ==
  \E c \in Calls :
    /\ op[c] = "pipeline" /\ Sent(c) /\ SlugBased(c)
    /\ FileOf(c).t = "Buffer" /\ DataOf(c) = Flat1
    /\ requests[c][1].body.t = "FormData"
    /\ ~HasKey(requests[c][1].headers, H_ContentType)

(* ----------------------------- proxy body ------------------------------ *)
\* the method and the body a proxy call asks for
MethodOf(c) ==
  IF op[c] = "proxy" /\ Structured(OptionsOf(c)) /\ Get(OptionsOf(c), K_method).t = "string"
  THEN Get(OptionsOf(c), K_method).s ELSE S_GET
BodyOf(c) == IF Structured(OptionsOf(c)) THEN Get(OptionsOf(c), K_body) ELSE Undefined

\* a body option that is a non-empty string or an object
BodyGiven(c) == NonEmptyString(BodyOf(c)) \/ BodyOf(c).t = "object"

\* {"n":"x"}
Flat1Text == <<"{", "\"", "n", "\"", ":", "\"", "x", "\"", "}">>

\* C19 as stated: a proxy request has a body exactly when a body is given
\* and the method is one that changes things (POST, PUT, PATCH or DELETE);
\* a string body is sent as it is, an object as its JSON text.
C19_AsStated ==
  \A c \in Calls :
    op[c] = "proxy" /\ Sent(c) =>
      /\ requests[c][1].body # Undefined
           <=> BodyGiven(c) /\ MethodOf(c) \in {S_POST, S_PUT, S_PATCH, S_DELETE}
      /\ requests[c][1].body # Undefined =>
           requests[c][1].body = IF BodyOf(c).t = "string" THEN BodyOf(c)
                                 ELSE Str(JsonStringify(BodyOf(c)))

\* C19: a proxy request has a body exactly when the body option is a
\* non-empty string or an object (an empty one too) and the method is POST,
\* PUT or PATCH; a string body is sent as it is, an object as its JSON text.
\* A GET request and a DELETE request never have a body. The method of the
\* request is the method option, GET when there is none.
C19_ProxyBody ==
  \A c \in Calls :
    op[c] = "proxy" /\ Sent(c) =>
      /\ requests[c][1].method = MethodOf(c)
      /\ requests[c][1].body # Undefined
           <=> BodyGiven(c) /\ MethodOf(c) \in {S_POST, S_PUT, S_PATCH}
      /\ requests[c][1].body # Undefined =>
           /\ requests[c][1].body = IF BodyOf(c).t = "string" THEN BodyOf(c)
                                    ELSE Str(JsonStringify(BodyOf(c)))
           /\ BodyOf(c) = Flat1 => requests[c][1].body.s = Flat1Text
      /\ MethodOf(c) \in {S_GET, S_DELETE} => requests[c][1].body = Undefined

C19_Witness ==
  \E c \in Calls :
    /\ op[c] = "proxy" /\ Sent(c) /\ MethodOf(c) = S_PATCH /\ BodyOf(c) = Nested1
    /\ requests[c][1].body.t = "string" /\ Len(requests[c][1].body.s) > 2

(* ------------------------- the fields of the client -------------------- *)
\* the step is a call of setCompanyId: it leaves every call as it is
OnlyConfigures ==
  /\ lastSet'.called
  /\ UNCHANGED <<pc, op, args, frame, requests, fetched, outcome>>

\* a call was invoked, went on or ended in this step
CallStep == <<pc, requests, outcome>> # <<pc', requests', outcome'>>

\* C15: no step changes apiKey or baseUrl; a step that changes companyId is
\* a call of setCompanyId and sets it to the argument of that call; a step
\* of proxy, transform or pipeline, whether the call goes on, succeeds or
\* fails, changes none of the three fields.
C15_FieldsKept ==
  [][/\ apiKey' = apiKey
     /\ baseUrl' = baseUrl
     /\ companyId' # companyId => OnlyConfigures /\ companyId' = lastSet'.companyId
     /\ CallStep => companyId' = companyId]_vars

\* the fields are those of the construction, but for the company id once set
C15_Witness ==
  \E c, d \in Calls :
    /\ outcome[c].kind = "fulfilled" /\ outcome[d].kind = "rejected"
    /\ lastSet.called /\ companyId # created[1].instance.companyId
    /\ apiKey = created[1].instance.apiKey
    /\ baseUrl = created[1].instance.baseUrl

(* ------------------------------ outcomes ------------------------------- *)
\* what a call has given its caller is a result or an error, not both
OneOutcome(out) ==
  \/ out.kind = "fulfilled" /\ out.error = NoError
  \/ out.kind = "rejected" /\ out.value = Undefined /\ out.error # NoError

\* the state part of C16
C16_Outcome ==
  \A c \in Calls :
    /\ pc[c] # "done" => outcome[c] = Pending /\ fetched[c].kind = "none"
    /\ pc[c] = "done" =>
         /\ OneOutcome(outcome[c])
         /\ requests[c] = <<>> => outcome[c].kind = "rejected"
         /\ requests[c] # <<>> => fetched[c].kind # "none"
         /\ fetched[c].kind = "error" =>
              outcome[c].kind = "rejected" /\ outcome[c].error = fetched[c].error
         /\ fetched[c].kind = "response" /\ fetched[c].response.status \notin 200..299 =>
              outcome[c].kind = "rejected"
         /\ outcome[c].kind = "fulfilled" =>
              fetched[c].kind = "response" /\ fetched[c].response.status \in 200..299

\* C16: a call has no outcome before it is done and exactly one once it is
\* done, a result or an error and not both; the outcome, once there, never
\* changes; a call whose fetch has resolved is done; a call that made no
\* request, a call whose fetch rejected and a call that got a non-2xx
\* response end with an error, the error of fetch being passed on as it
\* is; only a 2xx response gives a result; and a call waiting for the
\* company id goes on to fetch or to its error.
C16_SingleOutcome ==
  /\ []C16_Outcome
  /\ [][\A c \in Calls : outcome[c] # Pending => outcome'[c] = outcome[c] /\ pc'[c] = "done"]_vars
  /\ \A c \in Calls : (pc[c] = "awaitCompanyId") ~> (pc[c] \in {"awaitFetch", "done"})

C16_Witness ==
  /\ pc[1] = "done" /\ op[1] = "transform"
  /\ fetched[1].kind = "error" /\ fetched[1].error.name = "TypeError"
  /\ outcome[1].kind = "rejected" /\ outcome[1].error = fetched[1].error

(* ----------------------------- concurrency ----------------------------- *)
\* all that belongs to call c
CallState(c) == <<pc[c], op[c], args[c], frame[c], requests[c], fetched[c], outcome[c]>>

\* the call has gone past the point where it sends its request, or has ended
Decided(c) == pc[c] \in {"awaitFetch", "done"}

\* C17: two calls of the same method with the same arguments on the same
\* configuration (the fields of the client when the call was invoked) send
\* the same request or both none, whatever happened in between and whatever
\* the other call met; if they also got the same answer from fetch they end
\* with the same outcome; and a step of one call changes nothing of another
\* call.
C17_Independent ==
  /\ [](\A c, d \in Calls :
         op[c] # "none" /\ op[c] = op[d] /\ args[c] = args[d] =>
           /\ Decided(c) /\ Decided(d) => requests[c] = requests[d]
           /\ pc[c] = "done" /\ pc[d] = "done" /\ fetched[c] = fetched[d]
                => outcome[c] = outcome[d])
  /\ [][\A c, d \in Calls :
          c # d /\ CallState(c)' # CallState(c) => CallState(d)' = CallState(d)]_vars

C17_Witness ==
  \E c, d \in Calls :
    /\ c # d /\ op[c] = "pipeline" /\ op[d] = "pipeline" /\ args[c] = args[d]
    /\ SlugBased(c) /\ requests[c] # <<>> /\ requests[c] = requests[d]
    /\ companyId # args[c].this.companyId
    /\ outcome[c].kind = "fulfilled" /\ fetched[d].kind = "error"

(* -------------------------- the global object -------------------------- *)
\* an init() that has succeeded so far
Initialized == \E i \in DOMAIN created : created[i].by = "init" /\ ~created[i].threw

\* the fields of an instance, as a call on it finds them
FieldsOf(instance) ==
  [apiKey |-> instance.apiKey, baseUrl |-> instance.baseUrl, companyId |-> instance.companyId]

BuiltWithoutTenant == NotConfigured(Get(created[1].config, K_companyId))

\* the company id the client had when call c was invoked
TenantAtCall(c) == args[c].this.companyId

\* the url of the slug route of call c for a company id
SlugRoute(c, tenant) ==
  args[c].this.baseUrl
    \o (IF op[c] = "proxy" THEN ProxyCustomRoute ELSE PipelineCustomRoute)
    \o tenant.s \o <<"/">> \o LowerOfSlug(args[c].identifier.s)

\* the pipeline call has a file it can send, or data and no file
PayloadOk(c) ==
  \/ FileOf(c).t \in FileClasses
  \/ ~Truthy(FileOf(c)) /\ Truthy(DataOf(c))

\* C20 as stated: on a client constructed without a company id, a
\* slug-based call invoked before any setCompanyId makes no request and
\* ends with an error, and every slug-based call invoked after
\* setCompanyId(t) sends a request to the slug route of t.
C20_AsStated ==
  BuiltWithoutTenant =>
    \A c \in Calls :
      SlugBased(c) /\ pc[c] # "idle" =>
        /\ Missing(TenantAtCall(c)) =>
             NothingSent(c) /\ (pc[c] = "done" => outcome[c].kind = "rejected")
        /\ NonEmptyString(TenantAtCall(c)) /\ Decided(c) =>
             Sent(c) /\ HasPrefix(Url(c), SlugRoute(c, TenantAtCall(c)))

\* C20: the company id of the client is the argument of the latest
\* setCompanyId call, or the one of the construction when there was none.
\* On a client constructed without a company id, a slug-based call invoked
\* before any setCompanyId makes no request and ends with an error; a
\* slug-based call invoked when the company id is t sends its request to
\* the slug route of t, unless it is a pipeline call without a file it can
\* send and without data, which ends with a configuration error and no
\* request.
C20_TenantSet ==
  /\ companyId = IF lastSet.called THEN lastSet.companyId ELSE created[1].instance.companyId
  /\ BuiltWithoutTenant =>
       \A c \in Calls :
         SlugBased(c) /\ pc[c] # "idle" =>
           /\ Missing(TenantAtCall(c)) =>
                NothingSent(c) /\ (pc[c] = "done" => outcome[c].kind = "rejected")
           /\ NonEmptyString(TenantAtCall(c)) /\ Decided(c) =>
                IF op[c] = "pipeline" /\ ~PayloadOk(c)
                THEN IsConfigError(outcome[c]) /\ NothingSent(c)
                ELSE Sent(c) /\ HasPrefix(Url(c), SlugRoute(c, TenantAtCall(c)))

C20_Witness ==
  /\ BuiltWithoutTenant
  /\ \E c, d \in Calls :
       /\ op[c] = "proxy" /\ SlugBased(c) /\ TenantAtCall(c) = Tenant1
       /\ Sent(c) /\ Url(c) = SlugRoute(c, Tenant1)
       /\ op[d] = "pipeline" /\ SlugBased(d) /\ TenantAtCall(d) = Tenant2
       /\ Sent(d) /\ Url(d) = SlugRoute(d, Tenant2)

(* --------------------- errors of a non-2xx response -------------------- *)
\* 'HTTP <status>: <statusText>' written out for the response
Synthesized(r) == HttpPrefix \o StatusDigits(r.status) \o <<":", " ">> \o r.statusText

\* the decoded body is an object whose `error` is there and is not ''
HasErrorField(r) ==
  /\ r.body.parses /\ r.body.json.t = "object"
  /\ HasKey(r.body.json, K_error) /\ Get(r.body.json, K_error) # Empty

\* the call got a response whose status is not 2xx and is over
FailedResponse(c) ==
  /\ pc[c] = "done" /\ fetched[c].kind = "response"
  /\ (fetched[c].response.status < 200 \/ fetched[c].response.status > 299)

\* C21 as stated: a call that got a non-2xx response is rejected with one
\* error whose message is the non-empty `error` field of the decoded JSON
\* body or 'HTTP <status>: <statusText>', whatever the body; a JSON body
\* without `error`, with an empty `error`, or that is not an object gives
\* the synthesized message.
C21_AsStated ==
  \A c \in Calls :
    LET r == fetched[c].response
    IN FailedResponse(c) =>
         /\ outcome[c].kind = "rejected"
         /\ \/ outcome[c].error.message = Synthesized(r)
            \/ /\ HasErrorField(r)
               /\ outcome[c].error.message = ToString(Get(r.body.json, K_error))
         /\ r.body.parses /\ ~HasErrorField(r) =>
              outcome[c].error.message = Synthesized(r)

(* ------------------------- the global instance ------------------------- *)
\* the places in the log of constructions where an init() succeeded
SuccessfulInits == {i \in DOMAIN created : created[i].by = "init" /\ ~created[i].threw}

\* the object the most recent successful init() made, none when there was none
LatestInit ==
  IF SuccessfulInits = {} THEN NoInstance
  ELSE created[CHOOSE i \in SuccessfulInits : \A j \in SuccessfulInits : j <= i].instance

\* the global instance is the one of the most recent successful init()
GlobalIsLatestInit == globalInstance = LatestInit

\* this step is a call of vegap.proxy, vegap.transform or vegap.pipeline
VegapCallStep(c) == via[c].fn = "none" /\ via'[c].fn # "none"

\* a call of vegap.* runs on the object of the most recent successful init()
CallUsesLatestInit ==
  \A c \in Calls :
    VegapCallStep(c) =>
      /\ via'[c].instance = LatestInit
      /\ ~LatestInit.null => args'[c].this = FieldsOf(LatestInit)

ConfigStep ==
  \/ companyId' # companyId
  \/ lastSet' # lastSet
  \/ globalInstance' # globalInstance
  \/ created' # created

\* the slug-based call c has the url and the end its invocation decided
TenantOfInvocation(c) ==
  /\ via[c].fn # "none" => TenantAtCall(c) = via[c].instance.companyId
  /\ NotConfigured(TenantAtCall(c)) =>
       /\ NothingSent(c)
       /\ pc[c] = "done" => outcome[c].kind = "rejected"
  /\ Sent(c) =>
       /\ NonEmptyString(TenantAtCall(c))
       /\ PathOf(Url(c)) = SlugRoute(c, TenantAtCall(c))
  /\ Sent(c) /\ pc[c] = "done" /\ fetched[c].kind = "response" =>
       (outcome[c].kind = "fulfilled" <=> Ok(fetched[c].response))

\* C23: a slug-based call sends its request to the slug route of the
\* company id its client had when the call was invoked, and a call invoked
\* without one ends with an error and no request; a setCompanyId() on the
\* client or an init() that comes after the invocation changes nothing of
\* the call: not its request, not what it awaits, not its outcome.
C23_TenantOfInvocation ==
  /\ [](\A c \in Calls :
          SlugBased(c) /\ outcome[c].kind # "thrown" => TenantOfInvocation(c))
  /\ [][ConfigStep => \A c \in Calls : CallState(c)' = CallState(c)]_vars

C23_Witness ==
  /\ via[1].fn = "proxy" /\ SlugBased(1)
  /\ Len(created) = 2 /\ via[1].instance = created[1].instance
  /\ created[1].instance.companyId = Tenant1
  /\ created[2].by = "init" /\ globalInstance = created[2].instance
  /\ globalInstance.companyId = Tenant2
  /\ Sent(1) /\ Url(1) = SlugRoute(1, Tenant1)
  /\ outcome[1].kind = "fulfilled"

(* ----------------------- a slug and an id together --------------------- *)
\* the call has a string for its first argument and an id in its options
BothGiven(c) ==
  /\ op[c] \in {"proxy", "pipeline"}
  /\ args[c].identifier.t = "string"
  /\ NonEmptyString(Get(args[c].options, IdKey(c)))

\* {base}/api/proxy/{mappingId} or {base}/api/pipelines/execute/{pipelineId}
IdRoute(c) ==
  args[c].this.baseUrl
    \o (IF op[c] = "proxy" THEN ProxyRoute ELSE PipelineExecuteRoute)
    \o Get(args[c].options, IdKey(c)).s

\* the request of call c went to the id route, and its url has neither the
\* slug, nor the route of slugs, nor a company id
OnIdRoute(c) ==
  /\ Sent(c)
  /\ HasPrefix(Url(c), IdRoute(c))
  /\ op[c] = "pipeline" \/ NoPathNoQuery(c) => Url(c) = IdRoute(c)
  /\ NonEmptyString(args[c].identifier) =>
       /\ ~Includes(Url(c), args[c].identifier.s)
       /\ ~Includes(Url(c), LowerOfSlug(args[c].identifier.s))
  /\ ~Includes(Url(c), <<"c", "u", "s", "t", "o", "m">>)
  /\ \A t \in {Tenant1, Tenant2} : ~Includes(Url(c), t.s)

\* C24 as stated: a call given both a slug and an id in its options sends
\* its request, at once and whatever the company id is, to the id route;
\* the slug is not in the url.
C24_AsStated ==
  \A c \in Calls : BothGiven(c) /\ pc[c] # "idle" => OnIdRoute(c)

\* C24: a call given both a slug and an id in its options sends its
\* request, at once and whatever the company id is, to the id route, and
\* the slug is not in the url; except a pipeline call without a file it can
\* send and without data, which ends with a configuration error and no
\* request.
C24_IdWins ==
  \A c \in Calls :
    BothGiven(c) /\ pc[c] # "idle" =>
      IF op[c] = "pipeline" /\ ~PayloadOk(c)
      THEN IsConfigError(outcome[c]) /\ NothingSent(c) /\ pc[c] = "done"
      ELSE OnIdRoute(c)

C24_Witness ==
  /\ BothGiven(1) /\ op[1] = "pipeline" /\ args[1].identifier = Slug1
  /\ Missing(args[1].this.companyId) /\ Missing(companyId)
  /\ Sent(1) /\ Url(1) = DefaultBaseUrl \o PipelineExecuteRoute \o Id1.s
  /\ outcome[1].kind = "fulfilled"

====
